---- MODULE Spec2Model ----
(***************************************************************************)
(* A model of the oauth2 dispatch client (NewClient and the Request*       *)
(* methods of oauth2Client) and of the google, kakao and naver provider    *)
(* adapters.                                                               *)
(*                                                                         *)
(* Representation of Go strings.  A string that the code URL-encodes,      *)
(* form-encodes or concatenates (client ID, client secret, redirect URL,   *)
(* state, code, refresh token, access token, URLs, request bodies, header  *)
(* values) is a sequence of tokens; a token is a TLA+ string holding       *)
(* either one character or a run of unreserved characters (letters,        *)
(* digits, '-', '_', '.', '~') such as "client_id".  The Go string is the  *)
(* concatenation of the tokens and the empty Go string is << >>.  A        *)
(* response body, an error message and an error context are plain TLA+     *)
(* strings: the code only copies them.                                     *)
(***************************************************************************)
EXTENDS Integers, Sequences, FiniteSets, TLC

VARIABLES
    args,       \* the providers passed to NewClient, in argument order
    providers,  \* oauth2Client.providers: ProviderType -> index into args
    call,       \* the Request* call that returned: method, provider, argument
    inner,      \* the provider method that call invoked and what it returned
    ret,        \* what the Request* call returned to its caller
    sent,       \* the HTTP requests handed to client.Do during the call
    resp,       \* what client.Do and the body read gave back to the call
    history,    \* the client methods that returned earlier (not program
                \* state: the log a session keeps of what it has called)
    callers     \* the goroutines sharing the client: what each is calling,
                \* the request it has in flight, what it got back

vars == <<args, providers, call, inner, ret, sent, resp, history, callers>>

\* The largest number of providers passed to NewClient.
MaxAdapters == 2

\* The number of goroutines calling the client at the same time.
MaxCallers == 2

(***************************************************************************)
(* errors.go                                                               *)
(***************************************************************************)
ErrProviderNotSet        == [sentinel |-> "provider not set"]
ErrRedirectURLNotSet     == [sentinel |-> "redirect URL is not set for provider"]
ErrEmptyAuthCode         == [sentinel |-> "authorization code is empty"]
ErrTokenRequestFailed    == [sentinel |-> "failed to get access token"]
ErrUserInfoRequestFailed == [sentinel |-> "failed to get user info"]
ErrEmptyRefreshToken     == [sentinel |-> "refresh token is empty"]

\* The nil error.
NoError == [nil |-> TRUE]

\* fmt.Errorf("%s provider: %w: %s", provider, base, context): an error
\* whose message is built from the three arguments and that wraps base.
WrapProviderErrorNoContext(provider, base, context) ==
    [msg    |-> provider \o " provider: " \o base.sentinel \o ": ",
     unwrap |-> base]

WrapProviderError(provider, base, context) ==
    [msg    |-> provider \o " provider: " \o base.sentinel \o ": " \o context,
     unwrap |-> base]

\* err.Error()
ErrorText(err) ==
    IF "sentinel" \in DOMAIN err THEN err.sentinel ELSE err.msg

\* errors.Is(err, target) for the errors of this package: err is target
\* itself or wraps it with %w.
ErrorsIs(err, target) ==
    \/ err = target
    \/ "unwrap" \in DOMAIN err /\ err.unwrap = target

(***************************************************************************)
(* net/url: QueryEscape, Values.Set, Values.Encode, URL.Query              *)
(***************************************************************************)
\* The characters url.QueryEscape rewrites, with their escaped form.
Escaped ==
    [c \in {" ", "&", "=", "?", "/", ":", "+", "%", "#"} |->
        CASE c = " " -> <<"+">>
          [] c = "&" -> <<"%", "2", "6">>
          [] c = "=" -> <<"%", "3", "D">>
          [] c = "?" -> <<"%", "3", "F">>
          [] c = "/" -> <<"%", "2", "F">>
          [] c = ":" -> <<"%", "3", "A">>
          [] c = "+" -> <<"%", "2", "B">>
          [] c = "%" -> <<"%", "2", "5">>
          [] c = "#" -> <<"%", "2", "3">>]

RECURSIVE QueryEscape(_)
QueryEscape(s) ==
    IF s = << >> THEN << >>
    ELSE (IF Head(s) \in DOMAIN Escaped THEN Escaped[Head(s)] ELSE <<Head(s)>>)
         \o QueryEscape(Tail(s))

\* The character a %XY escape stands for; "" when XY is not one the model
\* knows how to decode.
Unhex(x, y) ==
    CASE x = "2" /\ y = "6" -> "&"
      [] x = "3" /\ y = "D" -> "="
      [] x = "3" /\ y = "F" -> "?"
      [] x = "2" /\ y = "F" -> "/"
      [] x = "3" /\ y = "A" -> ":"
      [] x = "2" /\ y = "B" -> "+"
      [] x = "2" /\ y = "5" -> "%"
      [] x = "2" /\ y = "3" -> "#"
      [] x = "2" /\ y = "0" -> " "
      [] OTHER -> ""

\* url.QueryUnescape; [ok |-> FALSE] is its EscapeError.
RECURSIVE QueryUnescape(_)
QueryUnescape(s) ==
    IF s = << >> THEN [ok |-> TRUE, s |-> << >>]
    ELSE IF Head(s) = "%"
    THEN IF Len(s) < 3 \/ Unhex(s[2], s[3]) = ""
         THEN [ok |-> FALSE, s |-> << >>]
         ELSE LET rest == QueryUnescape(SubSeq(s, 4, Len(s)))
              IN  [ok |-> rest.ok, s |-> <<Unhex(s[2], s[3])>> \o rest.s]
    ELSE LET rest == QueryUnescape(Tail(s))
         IN  [ok |-> rest.ok,
              s  |-> <<IF Head(s) = "+" THEN " " ELSE Head(s)>> \o rest.s]

\* Every key the code sets in a url.Values, in byte order: Values.Encode
\* writes the keys sorted.
KeyOrder ==
    <<"access_type", "client_id", "client_secret", "code", "grant_type",
      "prompt", "redirect_uri", "refresh_token", "response_type", "scope",
      "state">>

\* url.Values{} and Values.Set: a Values is a function from its keys to
\* the list of the key's values; Set replaces the list by one value.
EmptyValues == [k \in {} |-> << >>]

ValuesSet(v, key, value) ==
    [k \in DOMAIN v \cup {key} |-> IF k = key THEN <<value>> ELSE v[k]]

\* Values.Get: the first value of the key, "" when the key is absent.
ValuesGet(v, key) ==
    IF key \in DOMAIN v /\ v[key] # << >> THEN v[key][1] ELSE << >>

RECURSIVE EncodeKeyValues(_, _)
EncodeKeyValues(key, values) ==
    IF values = << >> THEN << >>
    ELSE QueryEscape(<<key>>) \o <<"=">> \o QueryEscape(Head(values))
         \o (IF Len(values) > 1
             THEN <<"&">> \o EncodeKeyValues(key, Tail(values))
             ELSE << >>)

RECURSIVE EncodeFrom(_, _, _)
EncodeFrom(v, i, first) ==
    IF i > Len(KeyOrder) THEN << >>
    ELSE IF KeyOrder[i] \in DOMAIN v /\ v[KeyOrder[i]] # << >>
    THEN (IF first THEN << >> ELSE <<"&">>)
         \o EncodeKeyValues(KeyOrder[i], v[KeyOrder[i]])
         \o EncodeFrom(v, i + 1, FALSE)
    ELSE EncodeFrom(v, i + 1, first)

\* Values.Encode: "k1=v1&k2=v2" with the keys sorted and both sides escaped.
\* Encode writing the keys and values as they are, without escaping.
RECURSIVE RawFrom(_, _, _)
RawFrom(v, i, first) ==
    IF i > Len(KeyOrder) THEN << >>
    ELSE IF KeyOrder[i] \in DOMAIN v /\ v[KeyOrder[i]] # << >>
    THEN (IF first THEN << >> ELSE <<"&">>)
         \o <<KeyOrder[i], "=">> \o v[KeyOrder[i]][1]
         \o RawFrom(v, i + 1, FALSE)
    ELSE RawFrom(v, i + 1, first)

ValuesEncodeUnescaped(v) == RawFrom(v, 1, TRUE)

ValuesEncode(v) == EncodeFrom(v, 1, TRUE)

\* The position of the first token of s equal to c, 0 when there is none.
RECURSIVE IndexOf(_, _, _)
IndexOf(s, c, i) ==
    IF i > Len(s) THEN 0
    ELSE IF s[i] = c THEN i
    ELSE IndexOf(s, c, i + 1)

\* The characters of a token sequence as one name: the keys of a Values are
\* written as names.
RECURSIVE Flatten(_)
Flatten(s) == IF s = << >> THEN "" ELSE Head(s) \o Flatten(Tail(s))

\* url.ParseQuery: the pairs are separated by '&', a pair is cut at its
\* first '=', both sides are unescaped, and a pair that does not unescape
\* is dropped.
RECURSIVE ParseQuery(_, _)
ParseQuery(q, v) ==
    IF q = << >> THEN v
    ELSE LET amp  == IndexOf(q, "&", 1)
             pair == IF amp = 0 THEN q ELSE SubSeq(q, 1, amp - 1)
             rest == IF amp = 0 THEN << >> ELSE SubSeq(q, amp + 1, Len(q))
             eq   == IndexOf(pair, "=", 1)
             rawk == IF eq = 0 THEN pair ELSE SubSeq(pair, 1, eq - 1)
             rawv == IF eq = 0 THEN << >> ELSE SubSeq(pair, eq + 1, Len(pair))
             key  == QueryUnescape(rawk)
             val  == QueryUnescape(rawv)
             name == Flatten(key.s)
         IN  IF pair = << >> \/ ~key.ok \/ ~val.ok
             THEN ParseQuery(rest, v)
             ELSE ParseQuery(rest,
                    [k \in DOMAIN v \cup {name} |->
                        IF k \in DOMAIN v
                        THEN (IF k = name THEN Append(v[k], val.s) ELSE v[k])
                        ELSE <<val.s>>])

\* url.Parse(u).Query(): the query is what follows the first '?', up to a
\* '#'.
URLQuery(u) ==
    LET qm    == IndexOf(u, "?", 1)
        after == IF qm = 0 THEN << >> ELSE SubSeq(u, qm + 1, Len(u))
        hash  == IndexOf(after, "#", 1)
        raw   == IF hash = 0 THEN after ELSE SubSeq(after, 1, hash - 1)
    IN  ParseQuery(raw, EmptyValues)

\* url.Parse(u): what precedes the first '?'.
URLBase(u) ==
    LET qm == IndexOf(u, "?", 1)
    IN  IF qm = 0 THEN u ELSE SubSeq(u, 1, qm - 1)

(***************************************************************************)
(* net/http and io: the injected *http.Client                              *)
(***************************************************************************)
\* What client.Do(req) followed by io.ReadAll(resp.Body) can give back:
\* an error from Do, or a response with a status code and a body whose
\* read succeeds or fails.
StatusCodes == {200, 201, 401, 500}

Bodies ==
    {"rate limited",
     "",
     "null",
     "[]",
     "{}",
     "{\"access_token\":\"AT\",\"refresh_token\":\"RT\",\"expires_in\":3600}",
     "{\"access_token\":\"AT\",\"refresh_token\":\"RT\",\"expires_in\":\"3600\"}",
     "{\"access_token\":\"AT\",\"refresh_token\":\"RT\",\"expires_in\":\"not-a-number\"}",
     "{\"access_token\":\"AT\",\"refresh_token\":\"RT\",\"expires_in\":\"99999999999999999999\"}",
     "{\"access_token\":\"AT\"}",
     "{\"id\":\"123\",\"email\":\"a@b.com\",\"name\":\"Test User\"}",
     "{\"id\":1001,\"kakao_account\":{\"email\":\"a@b.com\",\"profile\":{\"nickname\":\"nick\"}}}",
     "{\"id\":1002,\"kakao_account\":{\"name\":\"real\",\"profile\":{\"nickname\":\"nick\"}}}",
     "{\"resultcode\":\"00\",\"response\":{\"id\":\"naver-id\",\"email\":\"a@b.com\",\"name\":\"naver-user\"}}",
     "{\"resultcode\":\"024\",\"message\":\"Authentication failed\"}"}

\* The bodies the transport returns with a status other than 200.
ErrorBodies ==
    {"rate limited",
     "{\"access_token\":\"AT\",\"refresh_token\":\"RT\",\"expires_in\":3600}",
     "{\"access_token\":\"AT\",\"refresh_token\":\"RT\",\"expires_in\":\"3600\"}",
     "{\"id\":1001,\"kakao_account\":{\"email\":\"a@b.com\",\"profile\":{\"nickname\":\"nick\"}}}",
     "{\"resultcode\":\"024\",\"message\":\"Authentication failed\"}"}

DoErrors == {"network error", "connection reset"}

\* The error of client.Do when the context of the request is cancelled or
\* its deadline passes while the request is in flight.
ContextCanceled == "context canceled"

ReadErrorText == "unexpected EOF"

DoOutcomes ==
    [type : {"err"}, msg : DoErrors]
    \cup [type : {"resp"}, status : {200}, body : Bodies, readErr : {FALSE}]
    \cup [type : {"resp"}, status : StatusCodes \ {200}, body : ErrorBodies,
          readErr : {FALSE}]
    \cup [type : {"resp"}, status : {200, 500}, body : {""}, readErr : {TRUE}]

\* What the network would give back when the request is not aborted
\* although the caller's context is cancelled.
RaceOutcomes ==
    [type : {"err"}, msg : {"network error"}]
    \cup [type : {"resp"}, status : {200},
          body : {"{\"access_token\":\"AT\",\"refresh_token\":\"RT\",\"expires_in\":3600}",
                  "{\"id\":\"123\",\"email\":\"a@b.com\",\"name\":\"Test User\"}"},
          readErr : {FALSE}]

\* One round trip as the environment decides it: whether the caller's
\* context is cancelled while the request is in flight, and what the
\* network gives back if the request runs to its end.
Nets ==
    [cancelled : {FALSE}, outcome : DoOutcomes]
    \cup [cancelled : {TRUE}, outcome : RaceOutcomes]

\* client.Do(req): a request that carries the caller's context is aborted
\* with the context's error when that context is cancelled; a request built
\* without it (context.Background()) runs to its end.
ClientDo(req, net) ==
    IF net.cancelled /\ req.ctx
    THEN [type |-> "err", msg |-> ContextCanceled]
    ELSE net.outcome

\* The call did not reach client.Do.
NoResponse == [type |-> "none"]

\* http.NewRequest followed by Header.Set: the request carries
\* context.Background(), not the context of the caller.  With the constant
\* method and URL the code passes the constructor does not fail.
NewRequest(method, url, headerName, headerValue, body) ==
    [method |-> method, url |-> url,
     header |-> (headerName :> headerValue), body |-> body, ctx |-> FALSE]

\* http.NewRequestWithContext(ctx, ...) followed by Header.Set: the request
\* carries the context the caller passed.
NewRequestWithContext(method, url, headerName, headerValue, body) ==
    [method |-> method, url |-> url,
     header |-> (headerName :> headerValue), body |-> body, ctx |-> TRUE]

(***************************************************************************)
(* encoding/json                                                           *)
(***************************************************************************)
JStr(s)  == [t |-> "string", s |-> s]
JNum(n)  == [t |-> "number", n |-> n]
JObj(f)  == [t |-> "object", fields |-> f]
JBad(m)  == [t |-> "invalid", msg |-> m]
JNull    == [t |-> "null"]
JArr     == [t |-> "array"]

\* What the JSON decoder reads in each body the transport can return.
JSONParse(body) ==
    CASE body = "rate limited" ->
            JBad("invalid character 'r' looking for beginning of value")
      [] body = "" -> JBad("unexpected end of JSON input")
      [] body = "null" -> JNull
      [] body = "[]" -> JArr
      [] body = "{}" -> JObj([k \in {} |-> JNull])
      [] body = "{\"access_token\":\"AT\",\"refresh_token\":\"RT\",\"expires_in\":3600}" ->
            JObj([access_token  |-> JStr(<<"AT">>),
                  refresh_token |-> JStr(<<"RT">>),
                  expires_in    |-> JNum(3600)])
      [] body = "{\"access_token\":\"AT\",\"refresh_token\":\"RT\",\"expires_in\":\"3600\"}" ->
            JObj([access_token  |-> JStr(<<"AT">>),
                  refresh_token |-> JStr(<<"RT">>),
                  expires_in    |-> JStr(<<"3", "6", "0", "0">>)])
      [] body = "{\"access_token\":\"AT\",\"refresh_token\":\"RT\",\"expires_in\":\"not-a-number\"}" ->
            JObj([access_token  |-> JStr(<<"AT">>),
                  refresh_token |-> JStr(<<"RT">>),
                  expires_in    |-> JStr(<<"not-a-number">>)])
      [] body = "{\"access_token\":\"AT\",\"refresh_token\":\"RT\",\"expires_in\":\"99999999999999999999\"}" ->
            JObj([access_token  |-> JStr(<<"AT">>),
                  refresh_token |-> JStr(<<"RT">>),
                  expires_in    |-> JStr([i \in 1..20 |-> "9"])])
      [] body = "{\"access_token\":\"AT\"}" ->
            JObj([access_token |-> JStr(<<"AT">>)])
      [] body = "{\"id\":\"123\",\"email\":\"a@b.com\",\"name\":\"Test User\"}" ->
            JObj([id    |-> JStr(<<"1", "2", "3">>),
                  email |-> JStr(<<"a@b.com">>),
                  name  |-> JStr(<<"Test", " ", "User">>)])
      [] body = "{\"id\":1001,\"kakao_account\":{\"email\":\"a@b.com\",\"profile\":{\"nickname\":\"nick\"}}}" ->
            JObj([id |-> JNum(1001),
                  kakao_account |->
                      JObj([email   |-> JStr(<<"a@b.com">>),
                            profile |-> JObj([nickname |-> JStr(<<"nick">>)])])])
      [] body = "{\"id\":1002,\"kakao_account\":{\"name\":\"real\",\"profile\":{\"nickname\":\"nick\"}}}" ->
            JObj([id |-> JNum(1002),
                  kakao_account |->
                      JObj([name    |-> JStr(<<"real">>),
                            profile |-> JObj([nickname |-> JStr(<<"nick">>)])])])
      [] body = "{\"resultcode\":\"00\",\"response\":{\"id\":\"naver-id\",\"email\":\"a@b.com\",\"name\":\"naver-user\"}}" ->
            JObj([resultcode |-> JStr(<<"0", "0">>),
                  response |->
                      JObj([id    |-> JStr(<<"naver-id">>),
                            email |-> JStr(<<"a@b.com">>),
                            name  |-> JStr(<<"naver-user">>)])])
      [] body = "{\"resultcode\":\"024\",\"message\":\"Authentication failed\"}" ->
            JObj([resultcode |-> JStr(<<"0", "2", "4">>),
                  message    |-> JStr(<<"Authentication", " ", "failed">>)])

\* The member of a JSON object, JNull when the object has no such key: the
\* decoder leaves a field alone in both cases.
Member(obj, key) ==
    IF obj.t = "object" /\ key \in DOMAIN obj.fields
    THEN obj.fields[key] ELSE JNull

TypeErrorText(jsonType, field, goType) ==
    "json: cannot unmarshal " \o jsonType \o " into Go struct field "
        \o field \o " of type " \o goType

ValueErrorText(jsonType, goType) ==
    "json: cannot unmarshal " \o jsonType \o " into Go value of type "
        \o goType

\* Decoding one member into a string field, an int field, a struct field:
\* the value the field ends with and the error text ("" for none).
IntoString(obj, key, old, field) ==
    LET m == Member(obj, key)
    IN  CASE m.t = "null"   -> [v |-> old, err |-> ""]
          [] m.t = "string" -> [v |-> m.s, err |-> ""]
          [] OTHER -> [v |-> old, err |-> TypeErrorText(m.t, field, "string")]

IntoInt(obj, key, old, field) ==
    LET m == Member(obj, key)
    IN  CASE m.t = "null"   -> [v |-> old, err |-> ""]
          [] m.t = "number" -> [v |-> m.n, err |-> ""]
          [] OTHER -> [v |-> old, err |-> TypeErrorText(m.t, field, "int")]

IntoStruct(obj, key, field, goType) ==
    LET m == Member(obj, key)
    IN  CASE m.t = "null"   -> [v |-> JNull, err |-> ""]
          [] m.t = "object" -> [v |-> m, err |-> ""]
          [] OTHER -> [v |-> JNull, err |-> TypeErrorText(m.t, field, goType)]

\* The decoder reports the first error it met.
FirstError(errs) ==
    LET nonempty == SelectSeq(errs, LAMBDA e : e # "")
    IN  IF nonempty = << >> THEN "" ELSE nonempty[1]

(***************************************************************************)
(* oauth2.ProviderSetting and the values the provider methods return       *)
(***************************************************************************)
ClientIDs     == {<<"id">>, <<"a", "&", "b">>}
ClientSecrets == {<<"secret">>}
RedirectURLs  ==
    {<< >>,
     <<"http", ":", "/", "/", "localhost", "/", "cb", "?", "provider", "=", "x">>}

GoogleProviderType == "google"
KakaoProviderType  == "kakao"
NaverProviderType  == "naver"
ProviderTypes == {GoogleProviderType, KakaoProviderType, NaverProviderType}

\* A provider as its constructor built it from a ProviderSetting; client is
\* FALSE for a nil *http.Client.  The second set is the zero ProviderSetting.
Settings ==
    [typ : ProviderTypes, client : {TRUE}, clientID : ClientIDs,
     clientSecret : ClientSecrets, redirectURL : RedirectURLs]
    \cup [typ : ProviderTypes, client : {FALSE}, clientID : {<< >>},
          clientSecret : {<< >>}, redirectURL : {<< >>}]

\* A nil UserInfo or TokenInfo interface value.
Nil == [nil |-> TRUE]

\* What a provider method did: the value and error it returned, the
\* requests it had the client send, the response it consumed; panic when
\* it dereferenced a nil *http.Client instead of returning.
Return(val, err, reqs, tr) ==
    [val |-> val, err |-> err, sent |-> reqs, resp |-> tr, panic |-> FALSE]

NilClientPanic ==
    [val |-> Nil, err |-> NoError, sent |-> << >>, resp |-> NoResponse,
     panic |-> TRUE]

FormContentType == <<"application/x-www-form-urlencoded">>

\* The header value without the space after the scheme.
BearerNoSpace(accessToken) == <<"Bearer">> \o accessToken

\* "Bearer " + accessToken
Bearer(accessToken) == <<"Bearer", " ">> \o accessToken

\* strings.Join
RECURSIVE Join(_, _)
Join(elems, sep) ==
    IF elems = << >> THEN << >>
    ELSE IF Len(elems) = 1 THEN elems[1]
    ELSE elems[1] \o sep \o Join(Tail(elems), sep)

(***************************************************************************)
(* google/provider.go                                                      *)
(***************************************************************************)
GoogleUserInfoURL == <<"https://www.googleapis.com/oauth2/v2/userinfo">>
GoogleAuthURL     == <<"https://accounts.google.com/o/oauth2/v2/auth">>
GoogleTokenURL    == <<"https://oauth2.googleapis.com/token">>

\* var tokenInfo tokenInfo
GoogleZeroToken ==
    [pkg |-> "google", AccessToken |-> << >>, ExpiresIn |-> 0,
     RefreshToken |-> << >>]

\* json.Unmarshal(body, &tokenInfo)
GoogleTokenUnmarshal(body, tokenInfo) ==
    LET j  == JSONParse(body)
        at == IntoString(j, "access_token", tokenInfo.AccessToken,
                         "tokenInfo.access_token")
        ex == IntoInt(j, "expires_in", tokenInfo.ExpiresIn,
                      "tokenInfo.expires_in")
        rt == IntoString(j, "refresh_token", tokenInfo.RefreshToken,
                         "tokenInfo.refresh_token")
    IN  CASE j.t = "invalid" -> [v |-> tokenInfo, err |-> j.msg]
          [] j.t = "null"    -> [v |-> tokenInfo, err |-> ""]
          [] j.t = "object"  ->
                [v   |-> [pkg |-> "google", AccessToken |-> at.v,
                          ExpiresIn |-> ex.v, RefreshToken |-> rt.v],
                 err |-> FirstError(<<at.err, ex.err, rt.err>>)]
          [] OTHER ->
                [v |-> tokenInfo, err |-> ValueErrorText(j.t, "google.tokenInfo")]

\* var userInfo *userInfo; json.Unmarshal(body, &userInfo).  The target is
\* a pointer: JSON null leaves it nil, an object allocates the struct.
GoogleNilUserInfo == [pkg |-> "google", nilptr |-> TRUE]

GoogleUserUnmarshal(body) ==
    LET j  == JSONParse(body)
        id == IntoString(j, "id", << >>, "userInfo.id")
        em == IntoString(j, "email", << >>, "userInfo.email")
        nm == IntoString(j, "name", << >>, "userInfo.name")
        pc == IntoString(j, "picture", << >>, "userInfo.picture")
        lc == IntoString(j, "locale", << >>, "userInfo.locale")
    IN  CASE j.t = "invalid" -> [v |-> GoogleNilUserInfo, err |-> j.msg]
          [] j.t = "null"    -> [v |-> GoogleNilUserInfo, err |-> ""]
          [] j.t = "object"  ->
                [v   |-> [pkg |-> "google", nilptr |-> FALSE, ID |-> id.v,
                          Email |-> em.v, Name |-> nm.v, Picture |-> pc.v,
                          Locale |-> lc.v],
                 err |-> FirstError(<<id.err, em.err, nm.err, pc.err, lc.err>>)]
          [] OTHER ->
                [v   |-> GoogleNilUserInfo,
                 err |-> ValueErrorText(j.t, "google.userInfo")]

\* GetUserInfo sending the request a second time when client.Do fails.
GoogleGetUserInfoRetrying(g, accessToken, net) ==
    LET req == NewRequest("GET", GoogleUserInfoURL, "Authorization",
                          Bearer(accessToken), << >>)
        tr  == ClientDo(req, net)
    IN  IF ~g.client THEN NilClientPanic
        ELSE IF tr.type = "err"
        THEN Return(Nil, WrapProviderError(GoogleProviderType,
                        ErrUserInfoRequestFailed, tr.msg), <<req, req>>, tr)
        ELSE IF tr.readErr
        THEN Return(Nil, WrapProviderError(GoogleProviderType,
                        ErrUserInfoRequestFailed, ReadErrorText), <<req>>, tr)
        ELSE LET d == GoogleUserUnmarshal(tr.body)
             IN  IF d.err # ""
                 THEN Return(Nil, WrapProviderError(GoogleProviderType,
                                ErrUserInfoRequestFailed, d.err), <<req>>, tr)
                 ELSE Return(d.v, NoError, <<req>>, tr)

\* GetUserInfo rejecting an empty access token before the network, as the
\* token methods reject an empty code or refresh token.
GoogleGetUserInfoRejectingEmpty(g, accessToken, net) ==
    LET req == NewRequest("GET", GoogleUserInfoURL, "Authorization",
                          Bearer(accessToken), << >>)
        tr  == ClientDo(req, net)
    IN  IF accessToken = << >>
        THEN Return(Nil, WrapProviderError(GoogleProviderType,
                        ErrUserInfoRequestFailed, ""), << >>, NoResponse)
        ELSE IF ~g.client THEN NilClientPanic
        ELSE IF tr.type = "err"
        THEN Return(Nil, WrapProviderError(GoogleProviderType,
                        ErrUserInfoRequestFailed, tr.msg), <<req>>, tr)
        ELSE IF tr.readErr
        THEN Return(Nil, WrapProviderError(GoogleProviderType,
                        ErrUserInfoRequestFailed, ReadErrorText), <<req>>, tr)
        ELSE LET d == GoogleUserUnmarshal(tr.body)
             IN  IF d.err # ""
                 THEN Return(Nil, WrapProviderError(GoogleProviderType,
                                ErrUserInfoRequestFailed, d.err), <<req>>, tr)
                 ELSE Return(d.v, NoError, <<req>>, tr)

\* func (g *provider) GetUserInfo(accessToken string) (oauth2.UserInfo, error)
GoogleGetUserInfo(g, accessToken, net) ==
    LET req == NewRequest("GET", GoogleUserInfoURL, "Authorization",
                          Bearer(accessToken), << >>)
        tr  == ClientDo(req, net)
    IN  IF ~g.client THEN NilClientPanic
        ELSE IF tr.type = "err"
        THEN Return(Nil, WrapProviderError(GoogleProviderType,
                        ErrUserInfoRequestFailed, tr.msg), <<req>>, tr)
        ELSE IF tr.readErr
        THEN Return(Nil, WrapProviderError(GoogleProviderType,
                        ErrUserInfoRequestFailed, ReadErrorText), <<req>>, tr)
        ELSE LET d == GoogleUserUnmarshal(tr.body)
             IN  IF d.err # ""
                 THEN Return(Nil, WrapProviderError(GoogleProviderType,
                                ErrUserInfoRequestFailed, d.err), <<req>>, tr)
                 ELSE Return(d.v, NoError, <<req>>, tr)

\* GetAuthURL without the test of the redirect URL.
GoogleGetAuthURLNoRedirectCheck(g, state) ==
    LET scopes == <<<<"openid">>, <<"email">>, <<"profile">>>>
        q1 == ValuesSet(EmptyValues, "client_id", g.clientID)
        q2 == ValuesSet(q1, "redirect_uri", g.redirectURL)
        q3 == ValuesSet(q2, "response_type", <<"code">>)
        q4 == ValuesSet(q3, "scope", Join(scopes, <<" ">>))
        q5 == ValuesSet(q4, "state", state)
        q6 == ValuesSet(q5, "access_type", <<"offline">>)
        query == ValuesSet(q6, "prompt", <<"consent">>)
    IN  Return(GoogleAuthURL \o <<"?">> \o ValuesEncode(query), NoError,
               << >>, NoResponse)

\* func (g *provider) GetAuthURL(state string) (string, error)
GoogleGetAuthURL(g, state) ==
    LET scopes == <<<<"openid">>, <<"email">>, <<"profile">>>>
        q1 == ValuesSet(EmptyValues, "client_id", g.clientID)
        q2 == ValuesSet(q1, "redirect_uri", g.redirectURL)
        q3 == ValuesSet(q2, "response_type", <<"code">>)
        q4 == ValuesSet(q3, "scope", Join(scopes, <<" ">>))
        q5 == ValuesSet(q4, "state", state)
        q6 == ValuesSet(q5, "access_type", <<"offline">>)
        query == ValuesSet(q6, "prompt", <<"consent">>)
    IN  IF g.redirectURL = << >>
        THEN Return(<< >>, WrapProviderError(GoogleProviderType,
                        ErrRedirectURLNotSet, ""), << >>, NoResponse)
        ELSE Return(GoogleAuthURL \o <<"?">> \o ValuesEncode(query), NoError,
                    << >>, NoResponse)

\* GetAccessToken refusing a payload without an access token or an expiry.
GoogleGetAccessTokenRequiringFields(g, code, net) ==
    LET tokenInfo == GoogleZeroToken
        f1 == ValuesSet(EmptyValues, "code", code)
        f2 == ValuesSet(f1, "client_id", g.clientID)
        f3 == ValuesSet(f2, "client_secret", g.clientSecret)
        f4 == ValuesSet(f3, "redirect_uri", g.redirectURL)
        form == ValuesSet(f4, "grant_type", <<"authorization_code">>)
        req == NewRequest("POST", GoogleTokenURL, "Content-Type",
                          FormContentType, ValuesEncode(form))
        tr  == ClientDo(req, net)
    IN  IF code = << >>
        THEN Return(tokenInfo, WrapProviderError(GoogleProviderType,
                        ErrEmptyAuthCode, ""), << >>, NoResponse)
        ELSE IF ~g.client THEN NilClientPanic
        ELSE IF tr.type = "err"
        THEN Return(tokenInfo, WrapProviderError(GoogleProviderType,
                        ErrTokenRequestFailed, tr.msg), <<req>>, tr)
        ELSE IF tr.readErr
        THEN Return(tokenInfo, WrapProviderError(GoogleProviderType,
                        ErrTokenRequestFailed, ReadErrorText), <<req>>, tr)
        ELSE IF tr.status # 200
        THEN Return(tokenInfo, WrapProviderError(GoogleProviderType,
                        ErrTokenRequestFailed, tr.body), <<req>>, tr)
        ELSE LET d == GoogleTokenUnmarshal(tr.body, tokenInfo)
             IN  IF d.err # ""
                 THEN Return(d.v, WrapProviderError(GoogleProviderType,
                                ErrTokenRequestFailed, d.err), <<req>>, tr)
                 ELSE IF d.v.AccessToken = << >> \/ d.v.ExpiresIn = 0
                 THEN Return(d.v, WrapProviderError(GoogleProviderType,
                                ErrTokenRequestFailed, tr.body), <<req>>, tr)
                 ELSE Return(d.v, NoError, <<req>>, tr)

\* func (g *provider) GetAccessToken(code string) (oauth2.TokenInfo, error):
\* the code-for-token exchange of the google package.
GoogleGetAccessToken(g, code, net) ==
    LET tokenInfo == GoogleZeroToken
        f1 == ValuesSet(EmptyValues, "code", code)
        f2 == ValuesSet(f1, "client_id", g.clientID)
        f3 == ValuesSet(f2, "client_secret", g.clientSecret)
        f4 == ValuesSet(f3, "redirect_uri", g.redirectURL)
        form == ValuesSet(f4, "grant_type", <<"authorization_code">>)
        req == NewRequest("POST", GoogleTokenURL, "Content-Type",
                          FormContentType, ValuesEncode(form))
        tr  == ClientDo(req, net)
    IN  IF code = << >>
        THEN Return(tokenInfo, WrapProviderError(GoogleProviderType,
                        ErrEmptyAuthCode, ""), << >>, NoResponse)
        ELSE IF ~g.client THEN NilClientPanic
        ELSE IF tr.type = "err"
        THEN Return(tokenInfo, WrapProviderError(GoogleProviderType,
                        ErrTokenRequestFailed, tr.msg), <<req>>, tr)
        ELSE IF tr.readErr
        THEN Return(tokenInfo, WrapProviderError(GoogleProviderType,
                        ErrTokenRequestFailed, ReadErrorText), <<req>>, tr)
        ELSE IF tr.status # 200
        THEN Return(tokenInfo, WrapProviderError(GoogleProviderType,
                        ErrTokenRequestFailed, tr.body), <<req>>, tr)
        ELSE LET d == GoogleTokenUnmarshal(tr.body, tokenInfo)
             IN  IF d.err # ""
                 THEN Return(d.v, WrapProviderError(GoogleProviderType,
                                ErrTokenRequestFailed, d.err), <<req>>, tr)
                 ELSE Return(d.v, NoError, <<req>>, tr)

\* The token refresh of the google package: the same shape as the exchange,
\* with grant_type=refresh_token and ErrEmptyRefreshToken for an empty
\* input.
GoogleRefreshToken(g, refreshToken, net) ==
    LET tokenInfo == GoogleZeroToken
        f1 == ValuesSet(EmptyValues, "grant_type", <<"refresh_token">>)
        f2 == ValuesSet(f1, "client_id", g.clientID)
        f3 == ValuesSet(f2, "client_secret", g.clientSecret)
        form == ValuesSet(f3, "refresh_token", refreshToken)
        req == NewRequestWithContext("POST", GoogleTokenURL, "Content-Type",
                                     FormContentType, ValuesEncode(form))
        tr  == ClientDo(req, net)
    IN  IF refreshToken = << >>
        THEN Return(tokenInfo, WrapProviderError(GoogleProviderType,
                        ErrEmptyRefreshToken, ""), << >>, NoResponse)
        ELSE IF ~g.client THEN NilClientPanic
        ELSE IF tr.type = "err"
        THEN Return(tokenInfo, WrapProviderError(GoogleProviderType,
                        ErrTokenRequestFailed, tr.msg), <<req>>, tr)
        ELSE IF tr.readErr
        THEN Return(tokenInfo, WrapProviderError(GoogleProviderType,
                        ErrTokenRequestFailed, ReadErrorText), <<req>>, tr)
        ELSE IF tr.status # 200
        THEN Return(tokenInfo, WrapProviderError(GoogleProviderType,
                        ErrTokenRequestFailed, tr.body), <<req>>, tr)
        ELSE LET d == GoogleTokenUnmarshal(tr.body, tokenInfo)
             IN  IF d.err # ""
                 THEN Return(d.v, WrapProviderError(GoogleProviderType,
                                ErrTokenRequestFailed, d.err), <<req>>, tr)
                 ELSE Return(d.v, NoError, <<req>>, tr)

(***************************************************************************)
(* kakao/provider.go (the revision whose methods take a context)           *)
(***************************************************************************)
KakaoUserInfoURL == <<"https://kapi.kakao.com/v2/user/me">>
KakaoAuthURL     == <<"https://kauth.kakao.com/oauth/authorize">>
KakaoTokenURL    == <<"https://kauth.kakao.com/oauth/token">>

\* var tokenInfo tokenInfo
KakaoZeroToken ==
    [pkg |-> "kakao", AccessToken |-> << >>, RefreshToken |-> << >>,
     ExpiresIn |-> 0]

\* json.Unmarshal(body, &tokenInfo)
KakaoTokenUnmarshal(body, tokenInfo) ==
    LET j  == JSONParse(body)
        at == IntoString(j, "access_token", tokenInfo.AccessToken,
                         "tokenInfo.access_token")
        rt == IntoString(j, "refresh_token", tokenInfo.RefreshToken,
                         "tokenInfo.refresh_token")
        ex == IntoInt(j, "expires_in", tokenInfo.ExpiresIn,
                      "tokenInfo.expires_in")
    IN  CASE j.t = "invalid" -> [v |-> tokenInfo, err |-> j.msg]
          [] j.t = "null"    -> [v |-> tokenInfo, err |-> ""]
          [] j.t = "object"  ->
                [v   |-> [pkg |-> "kakao", AccessToken |-> at.v,
                          RefreshToken |-> rt.v, ExpiresIn |-> ex.v],
                 err |-> FirstError(<<at.err, rt.err, ex.err>>)]
          [] OTHER ->
                [v |-> tokenInfo, err |-> ValueErrorText(j.t, "kakao.tokenInfo")]

\* var userInfo userInfo; json.Unmarshal(body, &userInfo); &userInfo
KakaoUserUnmarshal(body) ==
    LET j   == JSONParse(body)
        id  == IntoInt(j, "id", 0, "userInfo.id")
        acc == IntoStruct(j, "kakao_account", "userInfo.kakao_account",
                          "struct")
        em  == IntoString(acc.v, "email", << >>, "userInfo.kakao_account.email")
        prf == IntoStruct(acc.v, "profile", "userInfo.kakao_account.profile",
                          "struct")
        nk  == IntoString(prf.v, "nickname", << >>,
                          "userInfo.kakao_account.profile.nickname")
        img == IntoString(prf.v, "profile_image_url", << >>,
                          "userInfo.kakao_account.profile.profile_image_url")
        gd  == IntoString(acc.v, "gender", << >>,
                          "userInfo.kakao_account.gender")
        nm  == IntoString(acc.v, "name", << >>, "userInfo.kakao_account.name")
        zero == [pkg |-> "kakao", nilptr |-> FALSE, ID |-> 0,
                 AccountInfo |->
                     [Email |-> << >>,
                      Profile |-> [NickName |-> << >>, ProfileImageURL |-> << >>],
                      Gender |-> << >>, Name |-> << >>]]
    IN  CASE j.t = "invalid" -> [v |-> zero, err |-> j.msg]
          [] j.t = "null"    -> [v |-> zero, err |-> ""]
          [] j.t = "object"  ->
                [v   |-> [pkg |-> "kakao", nilptr |-> FALSE, ID |-> id.v,
                          AccountInfo |->
                              [Email |-> em.v,
                               Profile |-> [NickName |-> nk.v,
                                            ProfileImageURL |-> img.v],
                               Gender |-> gd.v, Name |-> nm.v]],
                 err |-> FirstError(<<id.err, acc.err, em.err, prf.err, nk.err,
                                      img.err, gd.err, nm.err>>)]
          [] OTHER ->
                [v |-> zero, err |-> ValueErrorText(j.t, "kakao.userInfo")]

\* func (k *provider) GetAuthURL(ctx, state) (string, error)
KakaoGetAuthURL(k, state) ==
    LET q1 == ValuesSet(EmptyValues, "client_id", k.clientID)
        q2 == ValuesSet(q1, "redirect_uri", k.redirectURL)
        q3 == ValuesSet(q2, "response_type", <<"code">>)
        query == ValuesSet(q3, "state", state)
    IN  IF k.redirectURL = << >>
        THEN Return(<< >>, WrapProviderError(KakaoProviderType,
                        ErrRedirectURLNotSet, ""), << >>, NoResponse)
        ELSE Return(KakaoAuthURL \o <<"?">> \o ValuesEncode(query), NoError,
                    << >>, NoResponse)

\* GetToken refusing a decoded payload that has no access token.
KakaoGetTokenRequiringAccessToken(k, code, net) ==
    LET tokenInfo == KakaoZeroToken
        f1 == ValuesSet(EmptyValues, "grant_type", <<"authorization_code">>)
        f2 == ValuesSet(f1, "client_id", k.clientID)
        f3 == ValuesSet(f2, "redirect_uri", k.redirectURL)
        f4 == ValuesSet(f3, "code", code)
        form == ValuesSet(f4, "client_secret", k.clientSecret)
        req == NewRequestWithContext("POST", KakaoTokenURL, "Content-Type",
                                     FormContentType, ValuesEncode(form))
        tr  == ClientDo(req, net)
    IN  IF code = << >>
        THEN Return(tokenInfo, WrapProviderError(KakaoProviderType,
                        ErrEmptyAuthCode, ""), << >>, NoResponse)
        ELSE IF ~k.client THEN NilClientPanic
        ELSE IF tr.type = "err"
        THEN Return(tokenInfo, WrapProviderError(KakaoProviderType,
                        ErrTokenRequestFailed, tr.msg), <<req>>, tr)
        ELSE IF tr.readErr
        THEN Return(tokenInfo, WrapProviderError(KakaoProviderType,
                        ErrTokenRequestFailed, ReadErrorText), <<req>>, tr)
        ELSE IF tr.status # 200
        THEN Return(tokenInfo, WrapProviderError(KakaoProviderType,
                        ErrTokenRequestFailed, tr.body), <<req>>, tr)
        ELSE LET d == KakaoTokenUnmarshal(tr.body, tokenInfo)
             IN  IF d.err # ""
                 THEN Return(d.v, WrapProviderError(KakaoProviderType,
                                ErrTokenRequestFailed, d.err), <<req>>, tr)
                 ELSE IF d.v.AccessToken = << >>
                 THEN Return(d.v, WrapProviderError(KakaoProviderType,
                                ErrTokenRequestFailed, tr.body), <<req>>, tr)
                 ELSE Return(d.v, NoError, <<req>>, tr)

\* func (k *provider) GetToken(ctx, code) (oauth2.TokenInfo, error)
KakaoGetToken(k, code, net) ==
    LET tokenInfo == KakaoZeroToken
        f1 == ValuesSet(EmptyValues, "grant_type", <<"authorization_code">>)
        f2 == ValuesSet(f1, "client_id", k.clientID)
        f3 == ValuesSet(f2, "redirect_uri", k.redirectURL)
        f4 == ValuesSet(f3, "code", code)
        form == ValuesSet(f4, "client_secret", k.clientSecret)
        req == NewRequestWithContext("POST", KakaoTokenURL, "Content-Type",
                                     FormContentType, ValuesEncode(form))
        tr  == ClientDo(req, net)
    IN  IF code = << >>
        THEN Return(tokenInfo, WrapProviderError(KakaoProviderType,
                        ErrEmptyAuthCode, ""), << >>, NoResponse)
        ELSE IF ~k.client THEN NilClientPanic
        ELSE IF tr.type = "err"
        THEN Return(tokenInfo, WrapProviderError(KakaoProviderType,
                        ErrTokenRequestFailed, tr.msg), <<req>>, tr)
        ELSE IF tr.readErr
        THEN Return(tokenInfo, WrapProviderError(KakaoProviderType,
                        ErrTokenRequestFailed, ReadErrorText), <<req>>, tr)
        ELSE IF tr.status # 200
        THEN Return(tokenInfo, WrapProviderError(KakaoProviderType,
                        ErrTokenRequestFailed, tr.body), <<req>>, tr)
        ELSE LET d == KakaoTokenUnmarshal(tr.body, tokenInfo)
             IN  IF d.err # ""
                 THEN Return(d.v, WrapProviderError(KakaoProviderType,
                                ErrTokenRequestFailed, d.err), <<req>>, tr)
                 ELSE Return(d.v, NoError, <<req>>, tr)

\* GetUserInfo refusing a response whose status is not 200, as the token
\* methods do.
KakaoGetUserInfoCheckingStatus(k, accessToken, net) ==
    LET req == NewRequestWithContext("GET", KakaoUserInfoURL, "Authorization",
                                     Bearer(accessToken), << >>)
        tr  == ClientDo(req, net)
    IN  IF ~k.client THEN NilClientPanic
        ELSE IF tr.type = "err"
        THEN Return(Nil, WrapProviderError(KakaoProviderType,
                        ErrUserInfoRequestFailed, tr.msg), <<req>>, tr)
        ELSE IF tr.readErr
        THEN Return(Nil, WrapProviderError(KakaoProviderType,
                        ErrUserInfoRequestFailed, ReadErrorText), <<req>>, tr)
        ELSE IF tr.status # 200
        THEN Return(Nil, WrapProviderError(KakaoProviderType,
                        ErrUserInfoRequestFailed, tr.body), <<req>>, tr)
        ELSE LET d == KakaoUserUnmarshal(tr.body)
             IN  IF d.err # ""
                 THEN Return(Nil, WrapProviderError(KakaoProviderType,
                                ErrUserInfoRequestFailed, d.err), <<req>>, tr)
                 ELSE Return(d.v, NoError, <<req>>, tr)

\* func (k *provider) GetUserInfo(ctx, accessToken) (oauth2.UserInfo, error)
KakaoGetUserInfo(k, accessToken, net) ==
    LET req == NewRequestWithContext("GET", KakaoUserInfoURL, "Authorization",
                                     Bearer(accessToken), << >>)
        tr  == ClientDo(req, net)
    IN  IF ~k.client THEN NilClientPanic
        ELSE IF tr.type = "err"
        THEN Return(Nil, WrapProviderError(KakaoProviderType,
                        ErrUserInfoRequestFailed, tr.msg), <<req>>, tr)
        ELSE IF tr.readErr
        THEN Return(Nil, WrapProviderError(KakaoProviderType,
                        ErrUserInfoRequestFailed, ReadErrorText), <<req>>, tr)
        ELSE LET d == KakaoUserUnmarshal(tr.body)
             IN  IF d.err # ""
                 THEN Return(Nil, WrapProviderError(KakaoProviderType,
                                ErrUserInfoRequestFailed, d.err), <<req>>, tr)
                 ELSE Return(d.v, NoError, <<req>>, tr)

\* RefreshToken reporting the empty input with the error of GetToken.
KakaoRefreshTokenWrongSentinel(k, refreshToken, net) ==
    LET tokenInfo == KakaoZeroToken
        f1 == ValuesSet(EmptyValues, "grant_type", <<"refresh_token">>)
        f2 == ValuesSet(f1, "client_id", k.clientID)
        f3 == ValuesSet(f2, "refresh_token", refreshToken)
        form == ValuesSet(f3, "client_secret", k.clientSecret)
        req == NewRequestWithContext("POST", KakaoTokenURL, "Content-Type",
                                     FormContentType, ValuesEncode(form))
        tr  == ClientDo(req, net)
    IN  IF refreshToken = << >>
        THEN Return(tokenInfo, WrapProviderError(KakaoProviderType,
                        ErrEmptyAuthCode, ""), << >>, NoResponse)
        ELSE IF ~k.client THEN NilClientPanic
        ELSE IF tr.type = "err"
        THEN Return(tokenInfo, WrapProviderError(KakaoProviderType,
                        ErrTokenRequestFailed, tr.msg), <<req>>, tr)
        ELSE IF tr.readErr
        THEN Return(tokenInfo, WrapProviderError(KakaoProviderType,
                        ErrTokenRequestFailed, ReadErrorText), <<req>>, tr)
        ELSE IF tr.status # 200
        THEN Return(tokenInfo, WrapProviderError(KakaoProviderType,
                        ErrTokenRequestFailed, tr.body), <<req>>, tr)
        ELSE LET d == KakaoTokenUnmarshal(tr.body, tokenInfo)
             IN  IF d.err # ""
                 THEN Return(d.v, WrapProviderError(KakaoProviderType,
                                ErrTokenRequestFailed, d.err), <<req>>, tr)
                 ELSE Return(d.v, NoError, <<req>>, tr)

\* RefreshToken sending the redirect URL as the exchange does.
KakaoRefreshTokenSendingRedirect(k, refreshToken, net) ==
    LET tokenInfo == KakaoZeroToken
        f1 == ValuesSet(EmptyValues, "grant_type", <<"refresh_token">>)
        f2 == ValuesSet(f1, "client_id", k.clientID)
        f3 == ValuesSet(f2, "refresh_token", refreshToken)
        f4 == ValuesSet(f3, "redirect_uri", k.redirectURL)
        form == ValuesSet(f4, "client_secret", k.clientSecret)
        req == NewRequestWithContext("POST", KakaoTokenURL, "Content-Type",
                                     FormContentType, ValuesEncode(form))
        tr  == ClientDo(req, net)
    IN  IF refreshToken = << >>
        THEN Return(tokenInfo, WrapProviderError(KakaoProviderType,
                        ErrEmptyRefreshToken, ""), << >>, NoResponse)
        ELSE IF ~k.client THEN NilClientPanic
        ELSE IF tr.type = "err"
        THEN Return(tokenInfo, WrapProviderError(KakaoProviderType,
                        ErrTokenRequestFailed, tr.msg), <<req>>, tr)
        ELSE IF tr.readErr
        THEN Return(tokenInfo, WrapProviderError(KakaoProviderType,
                        ErrTokenRequestFailed, ReadErrorText), <<req>>, tr)
        ELSE IF tr.status # 200
        THEN Return(tokenInfo, WrapProviderError(KakaoProviderType,
                        ErrTokenRequestFailed, tr.body), <<req>>, tr)
        ELSE LET d == KakaoTokenUnmarshal(tr.body, tokenInfo)
             IN  IF d.err # ""
                 THEN Return(d.v, WrapProviderError(KakaoProviderType,
                                ErrTokenRequestFailed, d.err), <<req>>, tr)
                 ELSE Return(d.v, NoError, <<req>>, tr)

\* func (k *provider) RefreshToken(ctx, refreshToken) (oauth2.TokenInfo, error)
KakaoRefreshToken(k, refreshToken, net) ==
    LET tokenInfo == KakaoZeroToken
        f1 == ValuesSet(EmptyValues, "grant_type", <<"refresh_token">>)
        f2 == ValuesSet(f1, "client_id", k.clientID)
        f3 == ValuesSet(f2, "refresh_token", refreshToken)
        form == ValuesSet(f3, "client_secret", k.clientSecret)
        req == NewRequestWithContext("POST", KakaoTokenURL, "Content-Type",
                                     FormContentType, ValuesEncode(form))
        tr  == ClientDo(req, net)
    IN  IF refreshToken = << >>
        THEN Return(tokenInfo, WrapProviderError(KakaoProviderType,
                        ErrEmptyRefreshToken, ""), << >>, NoResponse)
        ELSE IF ~k.client THEN NilClientPanic
        ELSE IF tr.type = "err"
        THEN Return(tokenInfo, WrapProviderError(KakaoProviderType,
                        ErrTokenRequestFailed, tr.msg), <<req>>, tr)
        ELSE IF tr.readErr
        THEN Return(tokenInfo, WrapProviderError(KakaoProviderType,
                        ErrTokenRequestFailed, ReadErrorText), <<req>>, tr)
        ELSE IF tr.status # 200
        THEN Return(tokenInfo, WrapProviderError(KakaoProviderType,
                        ErrTokenRequestFailed, tr.body), <<req>>, tr)
        ELSE LET d == KakaoTokenUnmarshal(tr.body, tokenInfo)
             IN  IF d.err # ""
                 THEN Return(d.v, WrapProviderError(KakaoProviderType,
                                ErrTokenRequestFailed, d.err), <<req>>, tr)
                 ELSE Return(d.v, NoError, <<req>>, tr)

(***************************************************************************)
(* naver/provider.go                                                       *)
(***************************************************************************)
NaverUserInfoURL == <<"https://openapi.naver.com/v1/nid/me">>
NaverAuthURL     == <<"https://nid.naver.com/oauth2.0/authorize">>
NaverTokenURL    == <<"https://nid.naver.com/oauth2.0/token">>

\* var tokenInfo tokenInfo: ExpiresIn is a string
NaverZeroToken ==
    [pkg |-> "naver", AccessToken |-> << >>, RefreshToken |-> << >>,
     ExpiresIn |-> << >>]

\* json.Unmarshal(body, &tokenInfo)
NaverTokenUnmarshal(body, tokenInfo) ==
    LET j  == JSONParse(body)
        at == IntoString(j, "access_token", tokenInfo.AccessToken,
                         "tokenInfo.access_token")
        rt == IntoString(j, "refresh_token", tokenInfo.RefreshToken,
                         "tokenInfo.refresh_token")
        ex == IntoString(j, "expires_in", tokenInfo.ExpiresIn,
                         "tokenInfo.expires_in")
    IN  CASE j.t = "invalid" -> [v |-> tokenInfo, err |-> j.msg]
          [] j.t = "null"    -> [v |-> tokenInfo, err |-> ""]
          [] j.t = "object"  ->
                [v   |-> [pkg |-> "naver", AccessToken |-> at.v,
                          RefreshToken |-> rt.v, ExpiresIn |-> ex.v],
                 err |-> FirstError(<<at.err, rt.err, ex.err>>)]
          [] OTHER ->
                [v |-> tokenInfo, err |-> ValueErrorText(j.t, "naver.tokenInfo")]

\* var userInfo userInfo; json.Unmarshal(body, &userInfo); &userInfo
NaverUserUnmarshal(body) ==
    LET j   == JSONParse(body)
        rc  == IntoString(j, "resultcode", << >>, "userInfo.resultcode")
        rsp == IntoStruct(j, "response", "userInfo.response", "struct")
        id  == IntoString(rsp.v, "id", << >>, "userInfo.response.id")
        em  == IntoString(rsp.v, "email", << >>, "userInfo.response.email")
        nm  == IntoString(rsp.v, "name", << >>, "userInfo.response.name")
        img == IntoString(rsp.v, "profile_image", << >>,
                          "userInfo.response.profile_image")
        gd  == IntoString(rsp.v, "gender", << >>, "userInfo.response.gender")
        zero == [pkg |-> "naver", nilptr |-> FALSE, Resultcode |-> << >>,
                 Response |-> [ID |-> << >>, Email |-> << >>, Name |-> << >>,
                               ProfileImage |-> << >>, Gender |-> << >>]]
    IN  CASE j.t = "invalid" -> [v |-> zero, err |-> j.msg]
          [] j.t = "null"    -> [v |-> zero, err |-> ""]
          [] j.t = "object"  ->
                [v   |-> [pkg |-> "naver", nilptr |-> FALSE, Resultcode |-> rc.v,
                          Response |-> [ID |-> id.v, Email |-> em.v,
                                        Name |-> nm.v, ProfileImage |-> img.v,
                                        Gender |-> gd.v]],
                 err |-> FirstError(<<rc.err, rsp.err, id.err, em.err, nm.err,
                                      img.err, gd.err>>)]
          [] OTHER ->
                [v |-> zero, err |-> ValueErrorText(j.t, "naver.userInfo")]

\* func (n *provider) GetAuthURL(ctx, state) (string, error)
NaverGetAuthURL(n, state) ==
    LET q1 == ValuesSet(EmptyValues, "response_type", <<"code">>)
        q2 == ValuesSet(q1, "client_id", n.clientID)
        q3 == ValuesSet(q2, "redirect_uri", n.redirectURL)
        query == ValuesSet(q3, "state", state)
    IN  IF n.redirectURL = << >>
        THEN Return(<< >>, WrapProviderError(NaverProviderType,
                        ErrRedirectURLNotSet, ""), << >>, NoResponse)
        ELSE Return(NaverAuthURL \o <<"?">> \o ValuesEncode(query), NoError,
                    << >>, NoResponse)

\* GetToken testing for the empty code only after the round trip.
NaverGetTokenLateCheck(n, code, net) ==
    LET tokenInfo == NaverZeroToken
        f1 == ValuesSet(EmptyValues, "grant_type", <<"authorization_code">>)
        f2 == ValuesSet(f1, "client_id", n.clientID)
        f3 == ValuesSet(f2, "client_secret", n.clientSecret)
        f4 == ValuesSet(f3, "code", code)
        form == ValuesSet(f4, "redirect_uri", n.redirectURL)
        req == NewRequestWithContext("POST", NaverTokenURL, "Content-Type",
                                     FormContentType, ValuesEncode(form))
        tr  == ClientDo(req, net)
    IN  IF ~n.client THEN NilClientPanic
        ELSE IF tr.type = "err"
        THEN Return(tokenInfo, WrapProviderError(NaverProviderType,
                        ErrTokenRequestFailed, tr.msg), <<req>>, tr)
        ELSE IF code = << >>
        THEN Return(tokenInfo, WrapProviderError(NaverProviderType,
                        ErrEmptyAuthCode, ""), <<req>>, tr)
        ELSE IF tr.readErr
        THEN Return(tokenInfo, WrapProviderError(NaverProviderType,
                        ErrTokenRequestFailed, ReadErrorText), <<req>>, tr)
        ELSE IF tr.status # 200
        THEN Return(tokenInfo, WrapProviderError(NaverProviderType,
                        ErrTokenRequestFailed, tr.body), <<req>>, tr)
        ELSE LET d == NaverTokenUnmarshal(tr.body, tokenInfo)
             IN  IF d.err # ""
                 THEN Return(d.v, WrapProviderError(NaverProviderType,
                                ErrTokenRequestFailed, d.err), <<req>>, tr)
                 ELSE Return(d.v, NoError, <<req>>, tr)

\* GetToken refusing to run without a redirect URL, as GetAuthURL does.
NaverGetTokenRequiringRedirect(n, code, net) ==
    LET tokenInfo == NaverZeroToken
        f1 == ValuesSet(EmptyValues, "grant_type", <<"authorization_code">>)
        f2 == ValuesSet(f1, "client_id", n.clientID)
        f3 == ValuesSet(f2, "client_secret", n.clientSecret)
        f4 == ValuesSet(f3, "code", code)
        form == ValuesSet(f4, "redirect_uri", n.redirectURL)
        req == NewRequestWithContext("POST", NaverTokenURL, "Content-Type",
                                     FormContentType, ValuesEncode(form))
        tr  == ClientDo(req, net)
    IN  IF code = << >>
        THEN Return(tokenInfo, WrapProviderError(NaverProviderType,
                        ErrEmptyAuthCode, ""), << >>, NoResponse)
        ELSE IF n.redirectURL = << >>
        THEN Return(tokenInfo, WrapProviderError(NaverProviderType,
                        ErrRedirectURLNotSet, ""), << >>, NoResponse)
        ELSE IF ~n.client THEN NilClientPanic
        ELSE IF tr.type = "err"
        THEN Return(tokenInfo, WrapProviderError(NaverProviderType,
                        ErrTokenRequestFailed, tr.msg), <<req>>, tr)
        ELSE IF tr.readErr
        THEN Return(tokenInfo, WrapProviderError(NaverProviderType,
                        ErrTokenRequestFailed, ReadErrorText), <<req>>, tr)
        ELSE IF tr.status # 200
        THEN Return(tokenInfo, WrapProviderError(NaverProviderType,
                        ErrTokenRequestFailed, tr.body), <<req>>, tr)
        ELSE LET d == NaverTokenUnmarshal(tr.body, tokenInfo)
             IN  IF d.err # ""
                 THEN Return(d.v, WrapProviderError(NaverProviderType,
                                ErrTokenRequestFailed, d.err), <<req>>, tr)
                 ELSE Return(d.v, NoError, <<req>>, tr)

\* func (n *provider) GetToken(ctx, code) (oauth2.TokenInfo, error)
NaverGetToken(n, code, net) ==
    LET tokenInfo == NaverZeroToken
        f1 == ValuesSet(EmptyValues, "grant_type", <<"authorization_code">>)
        f2 == ValuesSet(f1, "client_id", n.clientID)
        f3 == ValuesSet(f2, "client_secret", n.clientSecret)
        f4 == ValuesSet(f3, "code", code)
        form == ValuesSet(f4, "redirect_uri", n.redirectURL)
        req == NewRequestWithContext("POST", NaverTokenURL, "Content-Type",
                                     FormContentType, ValuesEncode(form))
        tr  == ClientDo(req, net)
    IN  IF code = << >>
        THEN Return(tokenInfo, WrapProviderError(NaverProviderType,
                        ErrEmptyAuthCode, ""), << >>, NoResponse)
        ELSE IF ~n.client THEN NilClientPanic
        ELSE IF tr.type = "err"
        THEN Return(tokenInfo, WrapProviderError(NaverProviderType,
                        ErrTokenRequestFailed, tr.msg), <<req>>, tr)
        ELSE IF tr.readErr
        THEN Return(tokenInfo, WrapProviderError(NaverProviderType,
                        ErrTokenRequestFailed, ReadErrorText), <<req>>, tr)
        ELSE IF tr.status # 200
        THEN Return(tokenInfo, WrapProviderError(NaverProviderType,
                        ErrTokenRequestFailed, tr.body), <<req>>, tr)
        ELSE LET d == NaverTokenUnmarshal(tr.body, tokenInfo)
             IN  IF d.err # ""
                 THEN Return(d.v, WrapProviderError(NaverProviderType,
                                ErrTokenRequestFailed, d.err), <<req>>, tr)
                 ELSE Return(d.v, NoError, <<req>>, tr)

\* GetUserInfo wrapping its errors with the identifier of the kakao package.
NaverGetUserInfoKakaoLabel(n, accessToken, net) ==
    LET req == NewRequestWithContext("GET", NaverUserInfoURL, "Authorization",
                                     Bearer(accessToken), << >>)
        tr  == ClientDo(req, net)
    IN  IF ~n.client THEN NilClientPanic
        ELSE IF tr.type = "err"
        THEN Return(Nil, WrapProviderError(KakaoProviderType,
                        ErrUserInfoRequestFailed, tr.msg), <<req>>, tr)
        ELSE IF tr.readErr
        THEN Return(Nil, WrapProviderError(KakaoProviderType,
                        ErrUserInfoRequestFailed, ReadErrorText), <<req>>, tr)
        ELSE LET d == NaverUserUnmarshal(tr.body)
             IN  IF d.err # ""
                 THEN Return(Nil, WrapProviderError(KakaoProviderType,
                                ErrUserInfoRequestFailed, d.err), <<req>>, tr)
                 ELSE Return(d.v, NoError, <<req>>, tr)

\* func (n *provider) GetUserInfo(ctx, accessToken) (oauth2.UserInfo, error)
NaverGetUserInfo(n, accessToken, net) ==
    LET req == NewRequestWithContext("GET", NaverUserInfoURL, "Authorization",
                                     Bearer(accessToken), << >>)
        tr  == ClientDo(req, net)
    IN  IF ~n.client THEN NilClientPanic
        ELSE IF tr.type = "err"
        THEN Return(Nil, WrapProviderError(NaverProviderType,
                        ErrUserInfoRequestFailed, tr.msg), <<req>>, tr)
        ELSE IF tr.readErr
        THEN Return(Nil, WrapProviderError(NaverProviderType,
                        ErrUserInfoRequestFailed, ReadErrorText), <<req>>, tr)
        ELSE LET d == NaverUserUnmarshal(tr.body)
             IN  IF d.err # ""
                 THEN Return(Nil, WrapProviderError(NaverProviderType,
                                ErrUserInfoRequestFailed, d.err), <<req>>, tr)
                 ELSE Return(d.v, NoError, <<req>>, tr)

\* RefreshToken decoding the body without looking at the status code.
NaverRefreshTokenNoStatusCheck(n, refreshToken, net) ==
    LET tokenInfo == NaverZeroToken
        f1 == ValuesSet(EmptyValues, "grant_type", <<"refresh_token">>)
        f2 == ValuesSet(f1, "client_id", n.clientID)
        f3 == ValuesSet(f2, "client_secret", n.clientSecret)
        form == ValuesSet(f3, "refresh_token", refreshToken)
        req == NewRequestWithContext("POST", NaverTokenURL, "Content-Type",
                                     FormContentType, ValuesEncode(form))
        tr  == ClientDo(req, net)
    IN  IF refreshToken = << >>
        THEN Return(tokenInfo, WrapProviderError(NaverProviderType,
                        ErrEmptyRefreshToken, ""), << >>, NoResponse)
        ELSE IF ~n.client THEN NilClientPanic
        ELSE IF tr.type = "err"
        THEN Return(tokenInfo, WrapProviderError(NaverProviderType,
                        ErrTokenRequestFailed, tr.msg), <<req>>, tr)
        ELSE IF tr.readErr
        THEN Return(tokenInfo, WrapProviderError(NaverProviderType,
                        ErrTokenRequestFailed, ReadErrorText), <<req>>, tr)
        ELSE LET d == NaverTokenUnmarshal(tr.body, tokenInfo)
             IN  IF d.err # ""
                 THEN Return(d.v, WrapProviderError(NaverProviderType,
                                ErrTokenRequestFailed, d.err), <<req>>, tr)
                 ELSE Return(d.v, NoError, <<req>>, tr)

\* func (n *provider) RefreshToken(ctx, refreshToken) (oauth2.TokenInfo, error)
NaverRefreshToken(n, refreshToken, net) ==
    LET tokenInfo == NaverZeroToken
        f1 == ValuesSet(EmptyValues, "grant_type", <<"refresh_token">>)
        f2 == ValuesSet(f1, "client_id", n.clientID)
        f3 == ValuesSet(f2, "client_secret", n.clientSecret)
        form == ValuesSet(f3, "refresh_token", refreshToken)
        req == NewRequestWithContext("POST", NaverTokenURL, "Content-Type",
                                     FormContentType, ValuesEncode(form))
        tr  == ClientDo(req, net)
    IN  IF refreshToken = << >>
        THEN Return(tokenInfo, WrapProviderError(NaverProviderType,
                        ErrEmptyRefreshToken, ""), << >>, NoResponse)
        ELSE IF ~n.client THEN NilClientPanic
        ELSE IF tr.type = "err"
        THEN Return(tokenInfo, WrapProviderError(NaverProviderType,
                        ErrTokenRequestFailed, tr.msg), <<req>>, tr)
        ELSE IF tr.readErr
        THEN Return(tokenInfo, WrapProviderError(NaverProviderType,
                        ErrTokenRequestFailed, ReadErrorText), <<req>>, tr)
        ELSE IF tr.status # 200
        THEN Return(tokenInfo, WrapProviderError(NaverProviderType,
                        ErrTokenRequestFailed, tr.body), <<req>>, tr)
        ELSE LET d == NaverTokenUnmarshal(tr.body, tokenInfo)
             IN  IF d.err # ""
                 THEN Return(d.v, WrapProviderError(NaverProviderType,
                                ErrTokenRequestFailed, d.err), <<req>>, tr)
                 ELSE Return(d.v, NoError, <<req>>, tr)

(***************************************************************************)
(* strconv, and the accessors of the UserInfo and TokenInfo values         *)
(***************************************************************************)
Digits == <<"0", "1", "2", "3", "4", "5", "6", "7", "8", "9">>

IsDigit(c) == \E i \in 1..10 : Digits[i] = c

DigitValue(c) == (CHOOSE i \in 1..10 : Digits[i] = c) - 1

\* strconv.Itoa: the decimal digits of n, one token each.
RECURSIVE Itoa(_)
Itoa(n) ==
    IF n < 0 THEN <<"-">> \o Itoa(0 - n)
    ELSE IF n < 10 THEN <<Digits[n + 1]>>
    ELSE Itoa(n \div 10) \o <<Digits[(n % 10) + 1]>>

\* The largest int.  An int is 32 bits wide here, as on GOARCH=386 or arm;
\* on a 64-bit platform it is 1<<63 - 1 and the strings that leave the range
\* are longer.
MaxInt == 2147483647

\* The number the digits s write, below zero when neg; the digits are in
\* the range of int.
RECURSIVE DigitsValue(_, _, _)
DigitsValue(s, acc, neg) ==
    IF s = << >> THEN acc
    ELSE DigitsValue(Tail(s),
                     IF neg THEN 10 * acc - DigitValue(Head(s))
                     ELSE 10 * acc + DigitValue(Head(s)),
                     neg)

\* The digits without their leading zeros.
RECURSIVE Significant(_)
Significant(s) ==
    IF Len(s) > 1 /\ Head(s) = "0" THEN Significant(Tail(s)) ELSE s

\* The number the digits a write is larger than the one the digits b write
\* (neither has a leading zero).
RECURSIVE Exceeds(_, _)
Exceeds(a, b) ==
    IF Len(a) # Len(b) THEN Len(a) > Len(b)
    ELSE IF a = << >> THEN FALSE
    ELSE IF Head(a) # Head(b) THEN DigitValue(Head(a)) > DigitValue(Head(b))
    ELSE Exceeds(Tail(a), Tail(b))

\* The errors of package strconv; NoSyntaxError is a nil error.
ErrSyntax == "invalid syntax"
ErrRange  == "value out of range"
NoSyntaxError == ""

\* strconv.Atoi: an optional sign followed by one or more decimal digits.
\* Anything else is ErrSyntax with the number 0; digits that write a number
\* outside the range of int are ErrRange with the largest int of that sign.
Atoi(s) ==
    LET signed == s # << >> /\ Head(s) \in {"+", "-"}
        neg    == signed /\ Head(s) = "-"
        digits == IF signed THEN Tail(s) ELSE s
        ok     == digits # << >> /\ \A i \in 1..Len(digits) : IsDigit(digits[i])
        \* the digits of the largest magnitude: MaxInt, or MaxInt + 1 below zero
        cutoff == Itoa(MaxInt \div 10)
                    \o <<Digits[(MaxInt % 10) + (IF neg THEN 2 ELSE 1)]>>
    IN  IF ~ok THEN [n |-> 0, err |-> ErrSyntax]
        ELSE IF Exceeds(Significant(digits), cutoff)
        THEN [n |-> IF neg THEN (0 - MaxInt) - 1 ELSE MaxInt, err |-> ErrRange]
        ELSE [n |-> DigitsValue(digits, 0, neg), err |-> NoSyntaxError]

\* A method with a value receiver called on a nil pointer panics.
AccessorPanic == [panic |-> TRUE]
Got(v) == [panic |-> FALSE, v |-> v]

\* func (g userInfo) GetID() string { return g.ID }
GoogleGetID(g) == IF g.nilptr THEN AccessorPanic ELSE Got(g.ID)

\* func (k userInfo) GetID() string { return strconv.Itoa(k.ID) }
KakaoGetID(k) == IF k.nilptr THEN AccessorPanic ELSE Got(Itoa(k.ID))

\* func (n userInfo) GetID() string { return n.Response.ID }
NaverGetID(n) == IF n.nilptr THEN AccessorPanic ELSE Got(n.Response.ID)

\* func (g userInfo) GetEmail() string { return g.Email }
GoogleGetEmail(g) == IF g.nilptr THEN AccessorPanic ELSE Got(g.Email)

\* func (g userInfo) GetName() string { return g.Name }
GoogleGetName(g) == IF g.nilptr THEN AccessorPanic ELSE Got(g.Name)

\* func (k userInfo) GetEmail() string { return k.AccountInfo.Email }
KakaoGetEmail(k) == IF k.nilptr THEN AccessorPanic ELSE Got(k.AccountInfo.Email)

\* GetName returning the top-level name also when it is empty.
KakaoGetNameNoFallback(k) ==
    IF k.nilptr THEN AccessorPanic ELSE Got(k.AccountInfo.Name)

\* func (k userInfo) GetName() string: the nickname of the profile when
\* k.AccountInfo.Name == "".
KakaoGetName(k) ==
    IF k.nilptr THEN AccessorPanic
    ELSE IF k.AccountInfo.Name = << >>
    THEN Got(k.AccountInfo.Profile.NickName)
    ELSE Got(k.AccountInfo.Name)

\* func (k userInfo) GetGender() string { return k.AccountInfo.Gender }
KakaoGetGender(k) ==
    IF k.nilptr THEN AccessorPanic ELSE Got(k.AccountInfo.Gender)

\* func (k userInfo) GetProfileImage() string
KakaoGetProfileImage(k) ==
    IF k.nilptr THEN AccessorPanic
    ELSE Got(k.AccountInfo.Profile.ProfileImageURL)

\* func (n userInfo) GetEmail() string { return n.Response.Email }
NaverGetEmail(n) == IF n.nilptr THEN AccessorPanic ELSE Got(n.Response.Email)

\* func (n userInfo) GetName() string { return n.Response.Name }
NaverGetName(n) == IF n.nilptr THEN AccessorPanic ELSE Got(n.Response.Name)

\* func (n userInfo) GetGender() string { return n.Response.Gender }
NaverGetGender(n) == IF n.nilptr THEN AccessorPanic ELSE Got(n.Response.Gender)

\* func (n userInfo) GetProfileImage() string
NaverGetProfileImage(n) ==
    IF n.nilptr THEN AccessorPanic ELSE Got(n.Response.ProfileImage)

\* func (g tokenInfo) GetAccessToken() string { return g.AccessToken }
GoogleGetAccessTokenString(g) == g.AccessToken

\* func (g tokenInfo) GetRefreshToken() string { return g.RefreshToken }
GoogleGetRefreshToken(g) == g.RefreshToken

\* func (k tokenInfo) GetAccessToken() string { return k.AccessToken }
KakaoGetAccessToken(k) == k.AccessToken

\* func (k tokenInfo) GetRefreshToken() string { return k.RefreshToken }
KakaoGetRefreshToken(k) == k.RefreshToken

\* func (n tokenInfo) GetAccessToken() string { return n.AccessToken }
NaverGetAccessToken(n) == n.AccessToken

\* func (n tokenInfo) GetRefreshToken() string { return n.RefreshToken }
NaverGetRefreshToken(n) == n.RefreshToken

\* func (g tokenInfo) GetExpiry() int { return g.ExpiresIn }
GoogleGetExpiry(g) == g.ExpiresIn

\* func (k tokenInfo) GetExpiry() int { return k.ExpiresIn }
KakaoGetExpiry(k) == k.ExpiresIn

\* GetExpiry reporting a malformed expiry as -1.
NaverGetExpiryFlagging(n) ==
    IF Atoi(n.ExpiresIn).err # NoSyntaxError THEN 0 - 1
    ELSE Atoi(n.ExpiresIn).n

\* func (n tokenInfo) GetExpiry() int: sec, _ := strconv.Atoi(n.ExpiresIn)
NaverGetExpiry(n) == Atoi(n.ExpiresIn).n

\* TokenInfo.GetExpiry()
GetExpiry(t) ==
    CASE t.pkg = "google" -> GoogleGetExpiry(t)
      [] t.pkg = "kakao"  -> KakaoGetExpiry(t)
      [] t.pkg = "naver"  -> NaverGetExpiry(t)

\* TokenInfo.GetAccessToken()
GetAccessToken(t) ==
    CASE t.pkg = "google" -> GoogleGetAccessTokenString(t)
      [] t.pkg = "kakao"  -> KakaoGetAccessToken(t)
      [] t.pkg = "naver"  -> NaverGetAccessToken(t)

\* TokenInfo.GetRefreshToken()
GetRefreshToken(t) ==
    CASE t.pkg = "google" -> GoogleGetRefreshToken(t)
      [] t.pkg = "kakao"  -> KakaoGetRefreshToken(t)
      [] t.pkg = "naver"  -> NaverGetRefreshToken(t)

\* UserInfo.GetEmail()
GetEmail(u) ==
    CASE u.pkg = "google" -> GoogleGetEmail(u)
      [] u.pkg = "kakao"  -> KakaoGetEmail(u)
      [] u.pkg = "naver"  -> NaverGetEmail(u)

\* UserInfo.GetName()
GetName(u) ==
    CASE u.pkg = "google" -> GoogleGetName(u)
      [] u.pkg = "kakao"  -> KakaoGetName(u)
      [] u.pkg = "naver"  -> NaverGetName(u)

\* UserInfo.GetGender(); the userInfo of the google package has no such
\* method.
GetGender(u) ==
    CASE u.pkg = "kakao"  -> KakaoGetGender(u)
      [] u.pkg = "naver"  -> NaverGetGender(u)

\* UserInfo.GetProfileImage(); the userInfo of the google package has no
\* such method.
GetProfileImage(u) ==
    CASE u.pkg = "kakao"  -> KakaoGetProfileImage(u)
      [] u.pkg = "naver"  -> NaverGetProfileImage(u)

\* UserInfo.GetID()
GetID(u) ==
    CASE u.pkg = "google" -> GoogleGetID(u)
      [] u.pkg = "kakao"  -> KakaoGetID(u)
      [] u.pkg = "naver"  -> NaverGetID(u)

(***************************************************************************)
(* The oauth2.Provider interface: a call on a provider value runs the      *)
(* method of its package.                                                  *)
(***************************************************************************)
GetAuthURL(a, state) ==
    CASE a.typ = GoogleProviderType -> GoogleGetAuthURL(a, state)
      [] a.typ = KakaoProviderType  -> KakaoGetAuthURL(a, state)
      [] a.typ = NaverProviderType  -> NaverGetAuthURL(a, state)

GetToken(a, code, tr) ==
    CASE a.typ = GoogleProviderType -> GoogleGetAccessToken(a, code, tr)
      [] a.typ = KakaoProviderType  -> KakaoGetToken(a, code, tr)
      [] a.typ = NaverProviderType  -> NaverGetToken(a, code, tr)

RefreshToken(a, refreshToken, tr) ==
    CASE a.typ = GoogleProviderType -> GoogleRefreshToken(a, refreshToken, tr)
      [] a.typ = KakaoProviderType  -> KakaoRefreshToken(a, refreshToken, tr)
      [] a.typ = NaverProviderType  -> NaverRefreshToken(a, refreshToken, tr)

GetUserInfo(a, accessToken, tr) ==
    CASE a.typ = GoogleProviderType -> GoogleGetUserInfo(a, accessToken, tr)
      [] a.typ = KakaoProviderType  -> KakaoGetUserInfo(a, accessToken, tr)
      [] a.typ = NaverProviderType  -> NaverGetUserInfo(a, accessToken, tr)

\* func (p provider) GetProvider() oauth2.ProviderType
GetProvider(a) == a.typ

(***************************************************************************)
(* The dispatch client (package oauth2)                                    *)
(***************************************************************************)
\* NewClient: for _, provider := range providers
\*                { oauthClient.providers[provider.GetProvider()] = provider }
RECURSIVE Register(_, _, _)
Register(list, i, m) ==
    IF i > Len(list) THEN m
    ELSE Register(list, i + 1,
                  [t \in DOMAIN m \cup {GetProvider(list[i])} |->
                      IF t = GetProvider(list[i]) THEN i ELSE m[t]])

\* NewClient keeping the first provider registered under an identifier.
NewClientFirstWins(list) ==
    [t \in {GetProvider(list[i]) : i \in 1..Len(list)} |->
        CHOOSE i \in 1..Len(list) :
            /\ GetProvider(list[i]) = t
            /\ \A j \in 1..(i - 1) : GetProvider(list[j]) # t]

NewClient(list) == Register(list, 1, [t \in {} |-> 0])

\* No provider method was invoked.
NoCall == [adapter |-> 0]

\* Provider i was invoked: the method, the argument it was passed, the
\* value and error it returned, or that it panicked.
Invoked(i, method, arg, r) ==
    [adapter |-> i, method |-> method, arg |-> arg, val |-> r.val,
     err |-> r.err, panic |-> r.panic]

\* The outcome of a client method: what it returned (or that it panicked),
\* the provider call it made, the requests sent and the response consumed.
ClientReturn(val, err) == [val |-> val, err |-> err, panic |-> FALSE]
ClientPanic == [val |-> Nil, err |-> NoError, panic |-> TRUE]

\* return p.GetUserInfo(ctx, accessToken): the client returns the value and
\* the error of provider i as they are, and a panic of the provider is a
\* panic of the client.
Passed(i, method, arg, r) ==
    [ret   |-> IF r.panic THEN ClientPanic
               ELSE ClientReturn(r.val, r.err),
     inner |-> Invoked(i, method, arg, r),
     sent  |-> r.sent, resp |-> r.resp]

\* token, err := p.GetToken(ctx, code); if err != nil { return nil, err };
\* return token, nil: the client returns nil with the error of provider i,
\* or its value with no error.
Forwarded(i, method, arg, r) ==
    [ret   |-> IF r.panic THEN ClientPanic
               ELSE IF r.err # NoError THEN ClientReturn(Nil, r.err)
               ELSE ClientReturn(r.val, NoError),
     inner |-> Invoked(i, method, arg, r),
     sent  |-> r.sent, resp |-> r.resp]

\* The client returning the bare sentinel instead of the provider's error.
ForwardedBareSentinel(i, method, arg, r) ==
    [ret   |-> IF r.panic THEN ClientPanic
               ELSE IF r.err # NoError THEN ClientReturn(Nil, r.err.unwrap)
               ELSE ClientReturn(r.val, NoError),
     inner |-> Invoked(i, method, arg, r),
     sent  |-> r.sent, resp |-> r.resp]

\* RequestUserInfo falling back to the first provider of the list when the
\* identifier is not registered.
RequestUserInfoFallingBack(c, list, provider, accessToken, tr) ==
    IF provider \in DOMAIN c
    THEN Passed(c[provider], "GetUserInfo", accessToken,
                GetUserInfo(list[c[provider]], accessToken, tr))
    ELSE IF list # << >>
    THEN Passed(1, "GetUserInfo", accessToken,
                GetUserInfo(list[1], accessToken, tr))
    ELSE [ret |-> ClientReturn(Nil, ErrProviderNotSet), inner |-> NoCall,
          sent |-> << >>, resp |-> NoResponse]

\* func (c *oauth2Client) RequestUserInfo(ctx, provider, accessToken)
RequestUserInfo(c, list, provider, accessToken, tr) ==
    IF provider \in DOMAIN c
    THEN Passed(c[provider], "GetUserInfo", accessToken,
                GetUserInfo(list[c[provider]], accessToken, tr))
    ELSE [ret |-> ClientReturn(Nil, ErrProviderNotSet), inner |-> NoCall,
          sent |-> << >>, resp |-> NoResponse]

\* RequestAuthURL with the test of the provider's error inverted.
RequestAuthURLInvertedCheck(c, list, provider, state) ==
    IF provider \in DOMAIN c
    THEN LET r == GetAuthURL(list[c[provider]], state)
         IN  [ret   |-> IF r.err = NoError THEN [url |-> << >>]
                        ELSE [url |-> r.val],
              inner |-> Invoked(c[provider], "GetAuthURL", state, r),
              sent  |-> r.sent, resp |-> r.resp]
    ELSE [ret |-> [url |-> << >>], inner |-> NoCall,
          sent |-> << >>, resp |-> NoResponse]

\* func (c *oauth2Client) RequestAuthURL(ctx, provider, state) string
RequestAuthURL(c, list, provider, state) ==
    IF provider \in DOMAIN c
    THEN LET r == GetAuthURL(list[c[provider]], state)
         IN  [ret   |-> IF r.err # NoError THEN [url |-> << >>]
                        ELSE [url |-> r.val],
              inner |-> Invoked(c[provider], "GetAuthURL", state, r),
              sent  |-> r.sent, resp |-> r.resp]
    ELSE [ret |-> [url |-> << >>], inner |-> NoCall,
          sent |-> << >>, resp |-> NoResponse]

\* RequestToken returning the bare sentinel instead of the provider's error.
RequestTokenBareSentinel(c, list, provider, code, tr) ==
    IF provider \in DOMAIN c
    THEN ForwardedBareSentinel(c[provider], "GetToken", code,
                   GetToken(list[c[provider]], code, tr))
    ELSE [ret |-> ClientReturn(Nil, ErrProviderNotSet), inner |-> NoCall,
          sent |-> << >>, resp |-> NoResponse]

\* RequestToken returning what the provider returned as it is, the token
\* next to the error, as RequestUserInfo does.
RequestTokenPassing(c, list, provider, code, tr) ==
    IF provider \in DOMAIN c
    THEN Passed(c[provider], "GetToken", code,
                GetToken(list[c[provider]], code, tr))
    ELSE [ret |-> ClientReturn(Nil, ErrProviderNotSet), inner |-> NoCall,
          sent |-> << >>, resp |-> NoResponse]

\* func (c *oauth2Client) RequestToken(ctx, provider, code)
RequestToken(c, list, provider, code, tr) ==
    IF provider \in DOMAIN c
    THEN Forwarded(c[provider], "GetToken", code,
                   GetToken(list[c[provider]], code, tr))
    ELSE [ret |-> ClientReturn(Nil, ErrProviderNotSet), inner |-> NoCall,
          sent |-> << >>, resp |-> NoResponse]

\* RequestRefreshToken falling through to (nil, nil) for a missing provider.
RequestRefreshTokenSilentMiss(c, list, provider, refreshToken, tr) ==
    IF provider \in DOMAIN c
    THEN Forwarded(c[provider], "RefreshToken", refreshToken,
                   RefreshToken(list[c[provider]], refreshToken, tr))
    ELSE [ret |-> ClientReturn(Nil, NoError), inner |-> NoCall,
          sent |-> << >>, resp |-> NoResponse]

\* func (c *oauth2Client) RequestRefreshToken(ctx, provider, refreshToken)
RequestRefreshToken(c, list, provider, refreshToken, tr) ==
    IF provider \in DOMAIN c
    THEN Forwarded(c[provider], "RefreshToken", refreshToken,
                   RefreshToken(list[c[provider]], refreshToken, tr))
    ELSE [ret |-> ClientReturn(Nil, ErrProviderNotSet), inner |-> NoCall,
          sent |-> << >>, resp |-> NoResponse]

(***************************************************************************)
(* The state machine: a client is constructed once, then a caller calls    *)
(* its four methods in any order with any arguments, one call at a time:   *)
(* a call runs to its return, the caller takes the result, and the next    *)
(* call starts.                                                            *)
(***************************************************************************)
\* The identifiers callers pass; "github" is never registered.
ProviderIDs == ProviderTypes \cup {"github"}

States        == {<< >>, <<"xyz">>, <<"a", "=", "b", " ", "c">>}
Codes         == {<< >>, <<"4", "/", "c", "+", "d">>}
RefreshTokens == {<< >>, <<"rt", "&", "x">>}
AccessTokens  == {<< >>, <<"token">>}

\* A goroutine that is not inside a client method.
Callers == 1..MaxCallers
IdleCaller == [pc |-> "idle"]

\* No call is in progress or waiting to be taken by the caller.
Idle == [method |-> "none", provider |-> "", arg |-> << >>,
         cancelled |-> FALSE]
NoReturn == [none |-> TRUE]

Init ==
    /\ args \in UNION {[1..n -> Settings] : n \in 0..MaxAdapters}
    /\ providers = NewClient(args)
    /\ call = Idle
    /\ inner = NoCall
    /\ ret = NoReturn
    /\ sent = << >>
    /\ resp = NoResponse
    /\ history = {}
    /\ callers = [c \in Callers |-> IdleCaller]

\* A call that drops the provider from the registry when it fails.
RecordEvictingFailed(method, provider, arg, cancelled, out) ==
    /\ call = Idle
    /\ call' = [method |-> method, provider |-> provider, arg |-> arg,
                cancelled |-> cancelled]
    /\ inner' = out.inner
    /\ ret' = out.ret
    /\ sent' = out.sent
    /\ resp' = out.resp
    /\ providers' =
          IF out.inner # NoCall /\ ~out.inner.panic /\ out.inner.err # NoError
          THEN [t \in DOMAIN providers \ {provider} |-> providers[t]]
          ELSE providers
    /\ UNCHANGED <<args, history, callers>>

Record(method, provider, arg, cancelled, out) ==
    /\ call = Idle
    /\ call' = [method |-> method, provider |-> provider, arg |-> arg,
                cancelled |-> cancelled]
    /\ inner' = out.inner
    /\ ret' = out.ret
    /\ sent' = out.sent
    /\ resp' = out.resp
    /\ UNCHANGED <<args, providers, history, callers>>

CallRequestAuthURL ==
    \E provider \in ProviderIDs, state \in States :
        Record("RequestAuthURL", provider, state, FALSE,
               RequestAuthURL(providers, args, provider, state))

CallRequestToken ==
    \E provider \in ProviderIDs, code \in Codes, net \in Nets :
        Record("RequestToken", provider, code, net.cancelled,
               RequestToken(providers, args, provider, code, net))

CallRequestRefreshToken ==
    \E provider \in ProviderIDs, refreshToken \in RefreshTokens,
       net \in Nets :
        Record("RequestRefreshToken", provider, refreshToken, net.cancelled,
               RequestRefreshToken(providers, args, provider, refreshToken,
                                   net))

\* RequestUserInfo refusing to run before a RequestToken has returned, as a
\* client that kept the state of an authorization flow would.
CallRequestUserInfoAfterToken ==
    \E provider \in ProviderIDs, accessToken \in AccessTokens,
       net \in Nets :
        Record("RequestUserInfo", provider, accessToken, net.cancelled,
               IF "RequestToken" \in history
               THEN RequestUserInfo(providers, args, provider, accessToken,
                                    net)
               ELSE [ret |-> ClientReturn(Nil, ErrProviderNotSet),
                     inner |-> NoCall, sent |-> << >>, resp |-> NoResponse])

CallRequestUserInfo ==
    \E provider \in ProviderIDs, accessToken \in AccessTokens,
       net \in Nets :
        Record("RequestUserInfo", provider, accessToken, net.cancelled,
               RequestUserInfo(providers, args, provider, accessToken, net))

\* The caller takes the result of the call that returned.
Taken ==
    /\ call # Idle
    /\ call' = Idle
    /\ inner' = NoCall
    /\ ret' = NoReturn
    /\ sent' = << >>
    /\ resp' = NoResponse
    /\ UNCHANGED <<args, providers, callers>>

TakeResult == Taken /\ UNCHANGED history

Next ==
    \/ TakeResult
    \/ CallRequestAuthURL
    \/ CallRequestToken
    \/ CallRequestRefreshToken
    \/ CallRequestUserInfo

Spec == Init /\ [][Next]_vars

(***************************************************************************)
(* A session: the same client and the same calls, with a log of the        *)
(* methods that have returned so far, for the properties that speak of     *)
(* what ran before a call.  The providers are fully configured ones.       *)
(***************************************************************************)
SessionSettings ==
    {s \in Settings :
        s.client /\ s.clientID = <<"id">> /\ s.redirectURL # << >>}

SessionInit ==
    /\ args \in UNION {[1..n -> SessionSettings] : n \in 0..MaxAdapters}
    /\ providers = NewClient(args)
    /\ call = Idle
    /\ inner = NoCall
    /\ ret = NoReturn
    /\ sent = << >>
    /\ resp = NoResponse
    /\ history = {}
    /\ callers = [c \in Callers |-> IdleCaller]

\* The caller takes the result and notes the method in the log.
NoteResult == Taken /\ history' = history \cup {call.method}

SessionNext ==
    \/ NoteResult
    \/ CallRequestAuthURL
    \/ CallRequestToken
    \/ CallRequestRefreshToken
    \/ CallRequestUserInfo

Session == SessionInit /\ [][SessionNext]_vars

(***************************************************************************)
(* Concurrent callers: several goroutines call the methods of one client   *)
(* at the same time.  A call runs from its entry to client.Do in one step  *)
(* (it reads the registry and the provider's fields and builds the         *)
(* request), blocks in client.Do while other goroutines run, and runs from *)
(* the return of client.Do to its own return in a second step.  A call     *)
(* that returns before client.Do is one step.                              *)
(***************************************************************************)
ConcurrentSettings ==
    {s \in SessionSettings : s.typ \in {KakaoProviderType, NaverProviderType}}

ConcurrentProviderIDs == {KakaoProviderType, NaverProviderType, "github"}

\* The argument each goroutine passes to each method.
ConcurrentArg ==
    [m \in {"RequestAuthURL", "RequestToken", "RequestRefreshToken",
            "RequestUserInfo"} |->
        CASE m = "RequestAuthURL"      -> <<"xyz">>
          [] m = "RequestToken"        -> <<"4", "/", "c", "+", "d">>
          [] m = "RequestRefreshToken" -> <<"rt", "&", "x">>
          [] m = "RequestUserInfo"     -> <<"token">>]

ConcurrentNets ==
    {n \in Nets :
        \/ n.cancelled /\ n.outcome.type = "err"
        \/ /\ ~n.cancelled
           /\ n.outcome.type = "resp"
           /\ ~n.outcome.readErr
           /\ \/ n.outcome.status = 500 /\ n.outcome.body = "rate limited"
              \/ /\ n.outcome.status = 200
                 /\ n.outcome.body =
                      "{\"access_token\":\"AT\",\"refresh_token\":\"RT\",\"expires_in\":\"3600\"}"}

\* client.Do has not returned yet.
Pending == [cancelled |-> FALSE, outcome |-> [type |-> "err", msg |-> ""]]

\* The client method a goroutine runs, given what client.Do returns to it.
Run(method, provider, arg, net) ==
    CASE method = "RequestAuthURL" ->
            RequestAuthURL(providers, args, provider, arg)
      [] method = "RequestToken" ->
            RequestToken(providers, args, provider, arg, net)
      [] method = "RequestRefreshToken" ->
            RequestRefreshToken(providers, args, provider, arg, net)
      [] method = "RequestUserInfo" ->
            RequestUserInfo(providers, args, provider, arg, net)

ConcurrentInit ==
    /\ args \in UNION {[1..n -> ConcurrentSettings] : n \in 0..MaxAdapters}
    /\ providers = NewClient(args)
    /\ call = Idle
    /\ inner = NoCall
    /\ ret = NoReturn
    /\ sent = << >>
    /\ resp = NoResponse
    /\ history = {}
    /\ callers = [c \in Callers |-> IdleCaller]

\* Where a goroutine stands once its call has run up to client.Do: blocked
\* in it with its request in flight, or returned when the call returned
\* before the network.  pre is the call as far as it runs without an answer.
Started(method, provider, arg, pre) ==
    IF pre.sent = << >>
    THEN [pc |-> "done", method |-> method, provider |-> provider,
          arg |-> arg, net |-> Pending, out |-> pre]
    ELSE [pc |-> "inflight", method |-> method, provider |-> provider,
          arg |-> arg, req |-> pre.sent[1]]

\* Goroutine c enters a client method and runs it up to client.Do, or to
\* its return when it returns before the network.
Start(c) ==
    /\ callers[c].pc = "idle"
    /\ \E method \in DOMAIN ConcurrentArg, provider \in ConcurrentProviderIDs :
          callers' =
            [callers EXCEPT ![c] =
                Started(method, provider, ConcurrentArg[method],
                        Run(method, provider, ConcurrentArg[method],
                            Pending))]
    /\ UNCHANGED <<args, providers, call, inner, ret, sent, resp, history>>

\* client.Do returns to goroutine c, which finishes with what a goroutine
\* blocked in client.Do left in fields they share.
DeliverShared(c) ==
    /\ callers[c].pc = "inflight"
    /\ \E net \in ConcurrentNets, d \in Callers :
          /\ callers[d].pc = "inflight"
          /\ callers' =
                [callers EXCEPT ![c] =
                    [pc |-> "done", method |-> callers[c].method,
                     provider |-> callers[c].provider, arg |-> callers[c].arg,
                     net |-> net,
                     out |-> Run(callers[d].method, callers[d].provider,
                                 callers[d].arg, net)]]
    /\ UNCHANGED <<args, providers, call, inner, ret, sent, resp, history>>

\* client.Do returns to goroutine c, which runs the method to its return.
Deliver(c) ==
    /\ callers[c].pc = "inflight"
    /\ \E net \in ConcurrentNets :
          callers' =
            [callers EXCEPT ![c] =
                [pc |-> "done", method |-> callers[c].method,
                 provider |-> callers[c].provider, arg |-> callers[c].arg,
                 net |-> net,
                 out |-> Run(callers[c].method, callers[c].provider,
                             callers[c].arg, net)]]
    /\ UNCHANGED <<args, providers, call, inner, ret, sent, resp, history>>

\* Goroutine c takes its result and is free to call again.
Finish(c) ==
    /\ callers[c].pc = "done"
    /\ callers' = [callers EXCEPT ![c] = IdleCaller]
    /\ UNCHANGED <<args, providers, call, inner, ret, sent, resp, history>>

ConcurrentNext ==
    \E c \in Callers :
        \/ Start(c)
        \/ Deliver(c)
        \/ Finish(c)

Concurrent == ConcurrentInit /\ [][ConcurrentNext]_vars

(***************************************************************************)
(* Properties                                                              *)
(***************************************************************************)
\* A call of the named client method has returned.
Returned(method) == call.method = method

Registered == call.provider \in DOMAIN providers

\* The provider the call was routed to.
Target == args[providers[call.provider]]

\* C1: for a provider identifier that is not a key of the registry,
\* RequestToken, RequestRefreshToken and RequestUserInfo fail with
\* ErrProviderNotSet, whatever the code, refresh token or access token.
C1_UnregisteredFailsProviderNotSet ==
    (/\ call.method \in {"RequestToken", "RequestRefreshToken",
                         "RequestUserInfo"}
     /\ ~Registered)
    => /\ ~ret.panic
       /\ ret.err # NoError
       /\ ErrorsIs(ret.err, ErrProviderNotSet)
       /\ ret.val = Nil

\* A refresh with a non-empty token on an identifier missing from a
\* non-empty registry came back with ErrProviderNotSet.
C1_Witness ==
    /\ Returned("RequestRefreshToken")
    /\ call.provider = NaverProviderType
    /\ ~Registered
    /\ DOMAIN providers # {}
    /\ call.arg # << >>
    /\ ErrorsIs(ret.err, ErrProviderNotSet)

\* C2: RequestAuthURL has no error result; it returns the empty string for
\* an unregistered identifier and when the provider's GetAuthURL fails (as
\* it does for an empty redirect URL), and otherwise returns the URL the
\* provider built, unchanged.
C2_AuthURLNeverErrors ==
    Returned("RequestAuthURL")
    => /\ DOMAIN ret = {"url"}
       /\ ~Registered => ret.url = << >>
       /\ Registered =>
            /\ inner.adapter = providers[call.provider]
            /\ inner.err # NoError => ret.url = << >>
            /\ Target.redirectURL = << >> => ret.url = << >>
            /\ inner.err = NoError => ret.url = inner.val /\ ret.url # << >>

\* A registered provider with an empty redirect URL failed to build the
\* URL and the client returned the empty string.
C2_Witness ==
    /\ Returned("RequestAuthURL")
    /\ Registered
    /\ Target.redirectURL = << >>
    /\ inner.err # NoError
    /\ ret.url = << >>

\* The provider method each client method forwards to.
Forwards ==
    [m \in {"RequestToken", "RequestRefreshToken", "RequestUserInfo"} |->
        CASE m = "RequestToken"        -> "GetToken"
          [] m = "RequestRefreshToken" -> "RefreshToken"
          [] m = "RequestUserInfo"     -> "GetUserInfo"]

\* C3: for a registered identifier P, RequestToken, RequestRefreshToken
\* and RequestUserInfo pass the caller's argument to the matching method of
\* the provider registered under P and return its outcome: its value when
\* it succeeds, its error, unchanged, when it fails.
C3_ForwardsToRegisteredProvider ==
    (call.method \in DOMAIN Forwards /\ Registered)
    => /\ inner.adapter = providers[call.provider]
       /\ GetProvider(args[inner.adapter]) = call.provider
       /\ inner.method = Forwards[call.method]
       /\ inner.arg = call.arg
       /\ ret.panic = inner.panic
       /\ ~inner.panic => ret.err = inner.err
       /\ (~inner.panic /\ inner.err = NoError) => ret.val = inner.val

\* A token exchange on a registered provider failed in the provider with a
\* wrapped error carrying a response body, and the client returned it.
C3_Witness ==
    /\ Returned("RequestToken")
    /\ Registered
    /\ resp # NoResponse
    /\ resp.type = "resp"
    /\ resp.status = 500
    /\ inner.err # NoError
    /\ "unwrap" \in DOMAIN ret.err
    /\ ret.err = inner.err

\* The provider that was invoked, when one was.
Adapter == args[inner.adapter]

\* The call invoked the named provider method.
InvokedMethod(method) == inner # NoCall /\ inner.method = method

\* The message of the error WrapProviderError builds.
WrappedText(provider, base, context) ==
    provider \o " provider: " \o base.sentinel \o ": " \o context

\* C4: GetToken (the code exchange) of every provider, called with an
\* empty code, fails with ErrEmptyAuthCode without making a network call,
\* whatever the provider's setting: redirect URL unset, client nil.
C4_EmptyCodeRejectedBeforeNetwork ==
    (InvokedMethod("GetToken") /\ inner.arg = << >>)
    => /\ ~inner.panic
       /\ inner.err # NoError
       /\ ErrorsIs(inner.err, ErrEmptyAuthCode)
       /\ ErrorText(inner.err)
            = WrappedText(GetProvider(Adapter), ErrEmptyAuthCode, "")
       /\ sent = << >>
       /\ resp = NoResponse

\* A naver provider built from the zero ProviderSetting (nil client, no
\* redirect URL) rejected the empty code.
C4_Witness ==
    /\ InvokedMethod("GetToken")
    /\ inner.arg = << >>
    /\ GetProvider(Adapter) = NaverProviderType
    /\ ~Adapter.client
    /\ Adapter.redirectURL = << >>
    /\ ErrorsIs(inner.err, ErrEmptyAuthCode)
    /\ sent = << >>

\* C5: RefreshToken of every provider, google, kakao and naver, called
\* with an empty refresh token, fails with ErrEmptyRefreshToken without
\* making a network call.
C5_EmptyRefreshTokenRejectedBeforeNetwork ==
    (InvokedMethod("RefreshToken") /\ inner.arg = << >>)
    => /\ ~inner.panic
       /\ inner.err # NoError
       /\ ErrorsIs(inner.err, ErrEmptyRefreshToken)
       /\ ErrorText(inner.err)
            = WrappedText(GetProvider(Adapter), ErrEmptyRefreshToken, "")
       /\ sent = << >>
       /\ resp = NoResponse

\* A kakao provider rejected the empty refresh token.
C5_Witness ==
    /\ InvokedMethod("RefreshToken")
    /\ inner.arg = << >>
    /\ GetProvider(Adapter) = KakaoProviderType
    /\ ErrorsIs(inner.err, ErrEmptyRefreshToken)
    /\ sent = << >>

\* C6: GetAuthURL of any provider fails exactly when the provider's
\* redirect URL is empty; it then fails with ErrRedirectURLNotSet and
\* returns the empty URL.  Failing or succeeding, it makes no network call.
C6_AuthURLFailsIffNoRedirectURL ==
    InvokedMethod("GetAuthURL")
    => /\ ~inner.panic
       /\ (inner.err # NoError) <=> (Adapter.redirectURL = << >>)
       /\ inner.err # NoError =>
            /\ ErrorsIs(inner.err, ErrRedirectURLNotSet)
            /\ inner.val = << >>
       /\ inner.err = NoError => inner.val # << >>
       /\ sent = << >>
       /\ resp = NoResponse

\* A google provider without a redirect URL failed with
\* ErrRedirectURLNotSet and an empty URL.
C6_Witness ==
    /\ InvokedMethod("GetAuthURL")
    /\ GetProvider(Adapter) = GoogleProviderType
    /\ Adapter.redirectURL = << >>
    /\ ErrorsIs(inner.err, ErrRedirectURLNotSet)
    /\ inner.val = << >>

\* C7: for a registered provider P with a non-empty redirect URL and any
\* state S, the URL RequestAuthURL(P, S) returns has the query parameters
\* response_type=code, state=S, client_id=P's client ID and
\* redirect_uri=P's redirect URL; the google URL also has
\* scope="openid email profile", access_type=offline and prompt=consent;
\* the kakao and naver URLs have no other parameter than the four.
C7_AuthURLQueryParameters ==
    (Returned("RequestAuthURL") /\ Registered /\ Target.redirectURL # << >>)
    => LET q      == URLQuery(ret.url)
           common == {"response_type", "state", "client_id", "redirect_uri"}
           extras == IF call.provider = GoogleProviderType
                     THEN {"scope", "access_type", "prompt"} ELSE {}
       IN  /\ DOMAIN q = common \cup extras
           /\ q["response_type"] = << <<"code">> >>
           /\ q["state"] = <<call.arg>>
           /\ q["client_id"] = <<Target.clientID>>
           /\ q["redirect_uri"] = <<Target.redirectURL>>
           /\ call.provider = GoogleProviderType =>
                /\ q["scope"] = << <<"openid", " ", "email", " ", "profile">> >>
                /\ q["access_type"] = << <<"offline">> >>
                /\ q["prompt"] = << <<"consent">> >>

\* A kakao URL was built from a state, a client ID and a redirect URL that
\* all hold characters the query encoding has to escape.
C7_Witness ==
    /\ Returned("RequestAuthURL")
    /\ Registered
    /\ call.provider = KakaoProviderType
    /\ call.arg = <<"a", "=", "b", " ", "c">>
    /\ Target.clientID = <<"a", "&", "b">>
    /\ Target.redirectURL # << >>
    /\ ValuesGet(URLQuery(ret.url), "state") = call.arg

ZeroToken(typ) ==
    CASE typ = GoogleProviderType -> GoogleZeroToken
      [] typ = KakaoProviderType  -> KakaoZeroToken
      [] typ = NaverProviderType  -> NaverZeroToken

\* The token payload decoder of each provider accepts the body.
Decodable(typ, body) ==
    CASE typ = GoogleProviderType ->
            GoogleTokenUnmarshal(body, GoogleZeroToken).err = ""
      [] typ = KakaoProviderType ->
            KakaoTokenUnmarshal(body, KakaoZeroToken).err = ""
      [] typ = NaverProviderType ->
            NaverTokenUnmarshal(body, NaverZeroToken).err = ""

TokenCall == InvokedMethod("GetToken") \/ InvokedMethod("RefreshToken")

\* The call received a response and read its body.
GotBody == resp # NoResponse /\ resp.type = "resp" /\ ~resp.readErr

\* C8: in GetToken and RefreshToken, a response whose status is not 200
\* makes the call fail with ErrTokenRequestFailed and the raw response body
\* as context, also when the body is a well-formed token payload.
C8_Non200FailsWithBody ==
    (TokenCall /\ GotBody /\ resp.status # 200)
    => /\ inner.err # NoError
       /\ ErrorsIs(inner.err, ErrTokenRequestFailed)
       /\ ErrorText(inner.err)
            = WrappedText(GetProvider(Adapter), ErrTokenRequestFailed,
                          resp.body)
       /\ inner.val = ZeroToken(GetProvider(Adapter))
       /\ ret.err = inner.err
       /\ ret.val = Nil

\* A naver refresh got status 500 with a payload its decoder accepts, and
\* failed with that payload as context.
C8_Witness ==
    /\ InvokedMethod("RefreshToken")
    /\ GetProvider(Adapter) = NaverProviderType
    /\ GotBody
    /\ resp.status = 500
    /\ Decodable(NaverProviderType, resp.body)
    /\ ErrorsIs(inner.err, ErrTokenRequestFailed)
    /\ ErrorText(inner.err)
         = WrappedText(NaverProviderType, ErrTokenRequestFailed, resp.body)

\* C9 as stated: ErrTokenRequestFailed comes only from a transport error,
\* a status outside 200..299 or a payload that does not decode; any 2xx
\* response with a decodable payload is a success.
C9_Any2xxSucceeds ==
    TokenCall
    => /\ (GotBody /\ resp.status \in 200..299
           /\ Decodable(GetProvider(Adapter), resp.body))
          => inner.err = NoError
       /\ (inner.err # NoError /\ ErrorsIs(inner.err, ErrTokenRequestFailed))
          => \/ resp # NoResponse /\ resp.type = "err"
             \/ resp # NoResponse /\ resp.type = "resp" /\ resp.readErr
             \/ GotBody /\ resp.status \notin 200..299
             \/ GotBody /\ ~Decodable(GetProvider(Adapter), resp.body)

\* C9, amended: ErrTokenRequestFailed comes only from a transport error
\* (an error of client.Do or of reading the body), a status other than 200
\* or a payload that does not decode; a response with status 200 and a
\* decodable payload is returned as a successful TokenInfo.
C9_Only200Succeeds ==
    TokenCall
    => /\ (GotBody /\ resp.status = 200
           /\ Decodable(GetProvider(Adapter), resp.body))
          => /\ inner.err = NoError
             /\ ret.err = NoError
             /\ ret.val = inner.val
             /\ ret.val # Nil
       /\ (inner.err # NoError /\ ErrorsIs(inner.err, ErrTokenRequestFailed))
          => \/ resp # NoResponse /\ resp.type = "err"
             \/ resp # NoResponse /\ resp.type = "resp" /\ resp.readErr
             \/ GotBody /\ resp.status # 200
             \/ GotBody /\ ~Decodable(GetProvider(Adapter), resp.body)

\* A kakao exchange got status 200 with the payload {} and returned a
\* token.
C9_Witness ==
    /\ InvokedMethod("GetToken")
    /\ GetProvider(Adapter) = KakaoProviderType
    /\ GotBody
    /\ resp.status = 200
    /\ resp.body = "{}"
    /\ ret.err = NoError
    /\ ret.val = KakaoZeroToken

\* C10: when client.Do returns an error, GetToken and RefreshToken fail
\* with ErrTokenRequestFailed and GetUserInfo fails with
\* ErrUserInfoRequestFailed, the context being the message of that error;
\* nothing is decoded: the token returned is the zero token, the user info
\* is nil.
C10_TransportErrorWrapped ==
    (inner # NoCall /\ resp # NoResponse /\ resp.type = "err")
    => /\ TokenCall =>
            /\ ErrorsIs(inner.err, ErrTokenRequestFailed)
            /\ ErrorText(inner.err)
                 = WrappedText(GetProvider(Adapter), ErrTokenRequestFailed,
                               resp.msg)
            /\ inner.val = ZeroToken(GetProvider(Adapter))
       /\ InvokedMethod("GetUserInfo") =>
            /\ ErrorsIs(inner.err, ErrUserInfoRequestFailed)
            /\ ErrorText(inner.err)
                 = WrappedText(GetProvider(Adapter), ErrUserInfoRequestFailed,
                               resp.msg)
            /\ inner.val = Nil
       /\ ret.err = inner.err
       /\ ret.val = Nil
       /\ Len(sent) = 1

\* A google user-info fetch met the transport error "network error".
C10_Witness ==
    /\ InvokedMethod("GetUserInfo")
    /\ GetProvider(Adapter) = GoogleProviderType
    /\ resp # NoResponse
    /\ resp.type = "err"
    /\ resp.msg = "network error"
    /\ ErrorsIs(ret.err, ErrUserInfoRequestFailed)

\* json.Unmarshal of a user-info body by the decoder of each package.
UserUnmarshal(typ, body) ==
    CASE typ = GoogleProviderType -> GoogleUserUnmarshal(body)
      [] typ = KakaoProviderType  -> KakaoUserUnmarshal(body)
      [] typ = NaverProviderType  -> NaverUserUnmarshal(body)

\* C11: GetUserInfo does not look at the status code.  Whatever the status
\* of the response, a body that decodes gives a successful UserInfo and a
\* body that does not decode gives ErrUserInfoRequestFailed with the decode
\* error as context; the outcome is the same for 200, 201, 401 and 500.
C11_UserInfoIgnoresStatus ==
    (InvokedMethod("GetUserInfo") /\ GotBody)
    => LET d == UserUnmarshal(GetProvider(Adapter), resp.body)
       IN  /\ d.err = "" =>
                /\ inner.err = NoError
                /\ inner.val = d.v
                /\ ret.err = NoError
                /\ ret.val = d.v
                /\ ret.val # Nil
           /\ d.err # "" =>
                /\ ErrorsIs(inner.err, ErrUserInfoRequestFailed)
                /\ ErrorText(inner.err)
                     = WrappedText(GetProvider(Adapter),
                                   ErrUserInfoRequestFailed, d.err)
                /\ inner.val = Nil
                /\ ret.err = inner.err
                /\ ret.val = Nil

\* A kakao user-info fetch was answered 401 with a body that decodes, and
\* returned the decoded user.
C11_Witness ==
    /\ InvokedMethod("GetUserInfo")
    /\ GetProvider(Adapter) = KakaoProviderType
    /\ GotBody
    /\ resp.status = 401
    /\ KakaoUserUnmarshal(resp.body).err = ""
    /\ ret.err = NoError
    /\ ret.val.ID = 1001

\* The base kinds a provider wraps, and every sentinel of package oauth2.
AdapterKinds ==
    {ErrRedirectURLNotSet, ErrEmptyAuthCode, ErrEmptyRefreshToken,
     ErrTokenRequestFailed, ErrUserInfoRequestFailed}

AllKinds == AdapterKinds \cup {ErrProviderNotSet}

\* Every context a provider can pass to WrapProviderError: none, the
\* message of a transport or read error, a response body, a decode error.
Contexts ==
    {"", ReadErrorText, ContextCanceled} \cup DoErrors \cup Bodies
    \cup {GoogleTokenUnmarshal(b, GoogleZeroToken).err : b \in Bodies}
    \cup {KakaoTokenUnmarshal(b, KakaoZeroToken).err : b \in Bodies}
    \cup {NaverTokenUnmarshal(b, NaverZeroToken).err : b \in Bodies}
    \cup {UserUnmarshal(t, b).err : t \in ProviderTypes, b \in Bodies}

\* The providers whose identifier the message of err starts with, in the
\* form "<identifier> provider: <kind>: <context>".
ProvidersNamedBy(err) ==
    {p \in ProviderTypes :
        \E k \in AdapterKinds, ctx \in Contexts :
            /\ ErrorsIs(err, k)
            /\ ErrorText(err) = WrappedText(p, k, ctx)}

\* The base kinds errors.Is finds in err.
KindsOf(err) == {k \in AllKinds : ErrorsIs(err, k)}

\* C12: every error a provider method returns names the provider's own
\* identifier (and no other) in its message and wraps exactly one of the
\* five base kinds; when the client method returns an error of the
\* provider to its caller, the identifier and the kind are read from it in
\* the same way.
C12_ErrorsCarryProviderAndKind ==
    (inner # NoCall /\ ~inner.panic /\ inner.err # NoError)
    => /\ ProvidersNamedBy(inner.err) = {GetProvider(Adapter)}
       /\ Cardinality(KindsOf(inner.err)) = 1
       /\ KindsOf(inner.err) \subseteq AdapterKinds
       /\ call.method # "RequestAuthURL" =>
            /\ ~ret.panic
            /\ ret.err # NoError
            /\ ProvidersNamedBy(ret.err) = {call.provider}
            /\ KindsOf(ret.err) = KindsOf(inner.err)

\* A naver user-info fetch failed to decode its body; the error the client
\* returned names naver and wraps ErrUserInfoRequestFailed.
C12_Witness ==
    /\ Returned("RequestUserInfo")
    /\ Registered
    /\ call.provider = NaverProviderType
    /\ GotBody
    /\ NaverUserUnmarshal(resp.body).err # ""
    /\ ProvidersNamedBy(ret.err) = {NaverProviderType}
    /\ KindsOf(ret.err) = {ErrUserInfoRequestFailed}

\* C13: whenever RequestUserInfo succeeds, for any provider and whatever
\* the payload holds or omits, GetID() of the returned UserInfo is a
\* non-empty string.
C13_UserIDNonEmptyOnSuccess ==
    (Returned("RequestUserInfo") /\ ~ret.panic /\ ret.err = NoError)
    => /\ ret.val # Nil
       /\ ~GetID(ret.val).panic
       /\ GetID(ret.val).v # << >>

\* The positions of the argument list holding a provider with identifier t.
PositionsOf(t) == {i \in 1..Len(args) : GetProvider(args[i]) = t}

\* C14: NewClient keys each provider passed to it by GetProvider(); when
\* several share an identifier the registry binds the identifier to the
\* last of them in the argument list, and every client method called with
\* that identifier invokes that last provider, never an earlier one.
C14_LastRegisteredWins ==
    /\ DOMAIN providers = {GetProvider(args[i]) : i \in 1..Len(args)}
    /\ \A t \in DOMAIN providers :
            /\ providers[t] \in PositionsOf(t)
            /\ \A i \in PositionsOf(t) : i <= providers[t]
    /\ (call # Idle /\ PositionsOf(call.provider) # {})
       => /\ inner # NoCall
          /\ inner.adapter \in PositionsOf(call.provider)
          /\ \A i \in PositionsOf(call.provider) : i <= inner.adapter

\* Two different providers were registered under one identifier, the first
\* with a redirect URL and the second without; RequestAuthURL was answered
\* by the second.
C14_Witness ==
    /\ Len(args) = 2
    /\ GetProvider(args[1]) = GetProvider(args[2])
    /\ args[1].redirectURL # << >>
    /\ args[2].redirectURL = << >>
    /\ Returned("RequestAuthURL")
    /\ call.provider = GetProvider(args[2])
    /\ inner.adapter = 2
    /\ ret.url = << >>

AllMethods ==
    {"RequestAuthURL", "RequestToken", "RequestRefreshToken",
     "RequestUserInfo"}

\* C15: once NewClient has built the registry, no step of any sequence of
\* RequestAuthURL, RequestToken, RequestRefreshToken and RequestUserInfo
\* calls changes it: the set of keys and the provider bound to each key
\* stay what NewClient made them from its arguments.
C15_RegistryReadOnly ==
    [][/\ providers' = providers
       /\ args' = args
       /\ providers' = NewClient(args)]_vars

\* After all four methods have returned at least once, a token exchange
\* failed on a registered provider and another identifier is still
\* unregistered: the registry is the one NewClient built.
C15_Witness ==
    /\ history = AllMethods
    /\ Returned("RequestToken")
    /\ Registered
    /\ ret.err # NoError
    /\ DOMAIN providers # ProviderTypes
    /\ providers = NewClient(args)

\* The HTTP exchange of the call failed: client.Do returned an error, the
\* body could not be read, or a token endpoint answered with a status
\* other than 200.
RequestFailed ==
    /\ resp # NoResponse
    /\ \/ resp.type = "err"
       \/ resp.type = "resp" /\ resp.readErr
       \/ resp.type = "resp" /\ TokenCall /\ resp.status # 200

\* C16: no provider method retries.  One call of GetToken, RefreshToken or
\* GetUserInfo hands at most one request to the HTTP client, exactly one
\* when it got an answer and none when it returned before the network; a
\* failed exchange gives one error, returned once to the caller, and no
\* second request.
C16_NoRetry ==
    (TokenCall \/ InvokedMethod("GetUserInfo"))
    => /\ Len(sent) <= 1
       /\ resp # NoResponse <=> Len(sent) = 1
       /\ RequestFailed =>
            /\ Len(sent) = 1
            /\ inner.err # NoError
            /\ Cardinality(KindsOf(inner.err)) = 1
            /\ ret.err = inner.err
            /\ ret.val = Nil

\* A google user-info fetch met a transport error after sending one
\* request, and reported that one failure.
C16_Witness ==
    /\ InvokedMethod("GetUserInfo")
    /\ GetProvider(Adapter) = GoogleProviderType
    /\ resp # NoResponse
    /\ resp.type = "err"
    /\ Len(sent) = 1
    /\ ErrorsIs(ret.err, ErrUserInfoRequestFailed)
    /\ call.arg # << >>

\* The call reached the network: a provider method handed a request to the
\* HTTP client.
NetworkCall ==
    (TokenCall \/ InvokedMethod("GetUserInfo")) /\ sent # << >>

\* C17: every provider method that goes to the network, those of google
\* included, sends its request under the context the caller passed; when
\* that context is cancelled or times out while the request is in flight,
\* the request is aborted with the context's error and the method fails:
\* GetToken and RefreshToken with ErrTokenRequestFailed, GetUserInfo with
\* ErrUserInfoRequestFailed.
C17_CancellationAborts ==
    NetworkCall
    => /\ \A i \in 1..Len(sent) : sent[i].ctx
       /\ call.cancelled =>
            /\ resp = [type |-> "err", msg |-> ContextCanceled]
            /\ inner.err # NoError
            /\ ret.err = inner.err
            /\ TokenCall => ErrorsIs(inner.err, ErrTokenRequestFailed)
            /\ InvokedMethod("GetUserInfo") =>
                    ErrorsIs(inner.err, ErrUserInfoRequestFailed)

\* What the call of goroutine c returns when it runs alone, with the same
\* arguments and the same answer of the transport.
Alone(c) ==
    Run(callers[c].method, callers[c].provider, callers[c].arg,
        callers[c].net)

NetOfCall ==
    IF resp = NoResponse THEN Pending
    ELSE [cancelled |-> call.cancelled, outcome |-> resp]

NaverExpiresIn(body) == NaverTokenUnmarshal(body, NaverZeroToken).v.ExpiresIn

\* The string writes a decimal integer: an optional sign and one or more
\* digits.
DecimalInteger(s) ==
    LET digits == IF s # << >> /\ Head(s) \in {"+", "-"} THEN Tail(s) ELSE s
    IN  digits # << >> /\ \A i \in 1..Len(digits) : IsDigit(digits[i])

\* C20: a naver token payload whose expiry is not a number (malformed or
\* absent) causes no error: the exchange or refresh succeeds as it does
\* for any payload that decodes, and GetExpiry() of the TokenInfo returned
\* is 0; a well-formed expiry is returned as its number.
C20_NaverMalformedExpiryIsZero ==
    (TokenCall /\ GetProvider(Adapter) = NaverProviderType /\ GotBody
     /\ resp.status = 200 /\ Decodable(NaverProviderType, resp.body))
    => /\ ret.err = NoError
       /\ ret.val # Nil
       /\ ret.val.ExpiresIn = NaverExpiresIn(resp.body)
       /\ ~DecimalInteger(NaverExpiresIn(resp.body)) => GetExpiry(ret.val) = 0
       /\ NaverExpiresIn(resp.body) = <<"3", "6", "0", "0">>
            => GetExpiry(ret.val) = 3600

\* A naver refresh was answered with expires_in "not-a-number"; it
\* succeeded and the expiry of its token is 0.
C20_Witness ==
    /\ InvokedMethod("RefreshToken")
    /\ GetProvider(Adapter) = NaverProviderType
    /\ GotBody
    /\ resp.status = 200
    /\ NaverExpiresIn(resp.body) = <<"not-a-number">>
    /\ ret.err = NoError
    /\ ret.val.AccessToken = <<"AT">>
    /\ GetExpiry(ret.val) = 0

\* The decimal integer s as strconv.Itoa writes its value: no plus sign, no
\* leading zero, no minus sign before 0.
Canonical(s) ==
    LET digits == Significant(IF Head(s) \in {"+", "-"} THEN Tail(s) ELSE s)
    IN  IF Head(s) = "-" /\ digits # <<"0">> THEN <<"-">> \o digits
        ELSE digits

\* The string a token payload holds under key, "" when it holds none.
PayloadString(body, key) ==
    LET m == Member(JSONParse(body), key)
    IN  IF m.t = "string" THEN m.s ELSE << >>

\* C21: for the TokenInfo a naver exchange or refresh returns,
\* GetAccessToken() and GetRefreshToken() are the access_token and the
\* refresh_token of the payload, unchanged, and GetExpiry() is the integer
\* the expires_in string writes when it is a decimal integer, and 0 for
\* every other string.
C21_NaverTokenAccessors ==
    (TokenCall /\ GetProvider(Adapter) = NaverProviderType /\ GotBody
     /\ ret.err = NoError)
    => LET expiresIn == PayloadString(resp.body, "expires_in")
       IN  /\ GetAccessToken(ret.val)
                = PayloadString(resp.body, "access_token")
           /\ GetRefreshToken(ret.val)
                = PayloadString(resp.body, "refresh_token")
           /\ IF DecimalInteger(expiresIn)
              THEN Itoa(GetExpiry(ret.val)) = Canonical(expiresIn)
              ELSE GetExpiry(ret.val) = 0

\* The string a JSON object holds under key, "" when it holds none.
StringIn(obj, key) ==
    IF Member(obj, key).t = "string" THEN Member(obj, key).s ELSE << >>

\* C22: for the UserInfo a kakao user-info fetch returns, GetID() is the
\* decimal string of the number the payload holds as id, and GetName() is
\* the name of kakao_account when that is not empty and the nickname of its
\* profile otherwise.
C22_KakaoUserAccessors ==
    (InvokedMethod("GetUserInfo") /\ GetProvider(Adapter) = KakaoProviderType
     /\ GotBody /\ ret.err = NoError)
    => LET payload == JSONParse(resp.body)
           account == Member(payload, "kakao_account")
           name    == StringIn(account, "name")
           id      == Member(payload, "id")
       IN  /\ ~GetID(ret.val).panic
           /\ ~GetName(ret.val).panic
           /\ id.t = "number" =>
                /\ Atoi(GetID(ret.val).v)
                     = [n |-> id.n, err |-> NoSyntaxError]
                /\ Canonical(GetID(ret.val).v) = GetID(ret.val).v
           /\ GetName(ret.val).v
                = IF name # << >> THEN name
                  ELSE StringIn(Member(account, "profile"), "nickname")

\* A kakao user with id 1001 and no top-level name was fetched: its
\* identifier is "1001" and its name the nickname.
C22_Witness ==
    /\ InvokedMethod("GetUserInfo")
    /\ GetProvider(Adapter) = KakaoProviderType
    /\ GotBody
    /\ ret.err = NoError
    /\ Member(JSONParse(resp.body), "id") = JNum(1001)
    /\ GetID(ret.val).v = <<"1", "0", "0", "1">>
    /\ ret.val.AccountInfo.Name = << >>
    /\ GetName(ret.val).v = <<"nick">>

\* The token payload holds nothing under key.
Missing(body, key) == Member(JSONParse(body), key) = JNull

\* C23: a token exchange or refresh answered 200 with a payload that
\* decodes succeeds whichever token fields the payload holds.  No field is
\* required: a missing access_token or refresh_token reads back as "" and
\* a missing expires_in as 0 from the accessors of the TokenInfo returned,
\* and a token string the payload does hold reads back as it is.
C23_TokenFieldsNotValidated ==
    (TokenCall /\ GotBody /\ resp.status = 200
     /\ Decodable(GetProvider(Adapter), resp.body))
    => /\ inner.err = NoError
       /\ ret.err = NoError
       /\ ret.val # Nil
       /\ GetAccessToken(ret.val) = PayloadString(resp.body, "access_token")
       /\ GetRefreshToken(ret.val) = PayloadString(resp.body, "refresh_token")
       /\ Missing(resp.body, "access_token") => GetAccessToken(ret.val) = << >>
       /\ Missing(resp.body, "refresh_token")
            => GetRefreshToken(ret.val) = << >>
       /\ Missing(resp.body, "expires_in") => GetExpiry(ret.val) = 0

\* A naver exchange was answered 200 with a payload holding an access
\* token only: it succeeded, with no refresh token and an expiry of 0.
C23_Witness ==
    /\ InvokedMethod("GetToken")
    /\ GetProvider(Adapter) = NaverProviderType
    /\ GotBody
    /\ resp.status = 200
    /\ ~Missing(resp.body, "access_token")
    /\ Missing(resp.body, "refresh_token")
    /\ Missing(resp.body, "expires_in")
    /\ ret.err = NoError
    /\ GetAccessToken(ret.val) = <<"AT">>
    /\ GetRefreshToken(ret.val) = << >>
    /\ GetExpiry(ret.val) = 0

\* The token endpoint of each provider.
TokenURL(typ) ==
    CASE typ = GoogleProviderType -> GoogleTokenURL
      [] typ = KakaoProviderType  -> KakaoTokenURL
      [] typ = NaverProviderType  -> NaverTokenURL

\* C24: a token request goes to the token endpoint of the provider the
\* call names, and nowhere else, as a POST with a form-encoded body.  The
\* form of GetToken holds grant_type=authorization_code, the provider's
\* client_id and client_secret, the caller's code and the configured
\* redirect_uri, and nothing else; the form of RefreshToken holds
\* grant_type=refresh_token, client_id, client_secret and the caller's
\* refresh_token, and nothing else: neither code nor redirect_uri.
C24_TokenRequestForm ==
    (TokenCall /\ sent # << >>)
    => LET req  == sent[1]
           form == ParseQuery(req.body, EmptyValues)
       IN  /\ Len(sent) = 1
           /\ GetProvider(Adapter) = call.provider
           /\ req.method = "POST"
           /\ req.url = TokenURL(call.provider)
           /\ req.header = ("Content-Type" :> FormContentType)
           /\ InvokedMethod("GetToken") =>
                form = [grant_type    |-> << <<"authorization_code">> >>,
                        client_id     |-> <<Adapter.clientID>>,
                        client_secret |-> <<Adapter.clientSecret>>,
                        code          |-> <<call.arg>>,
                        redirect_uri  |-> <<Adapter.redirectURL>>]
           /\ InvokedMethod("RefreshToken") =>
                /\ form = [grant_type    |-> << <<"refresh_token">> >>,
                           client_id     |-> <<Adapter.clientID>>,
                           client_secret |-> <<Adapter.clientSecret>>,
                           refresh_token |-> <<call.arg>>]
                /\ "code" \notin DOMAIN form
                /\ "redirect_uri" \notin DOMAIN form

\* A kakao provider with a redirect URL and a client ID that needs
\* escaping sent a refresh request for a token that needs escaping too.
C24_Witness ==
    /\ InvokedMethod("RefreshToken")
    /\ GetProvider(Adapter) = KakaoProviderType
    /\ Adapter.redirectURL # << >>
    /\ Adapter.clientID = <<"a", "&", "b">>
    /\ call.arg = <<"rt", "&", "x">>
    /\ Len(sent) = 1
    /\ sent[1].url = KakaoTokenURL
    /\ ValuesGet(ParseQuery(sent[1].body, EmptyValues), "refresh_token")
         = call.arg

\* The profile endpoint of each provider.
UserInfoURL(typ) ==
    CASE typ = GoogleProviderType -> GoogleUserInfoURL
      [] typ = KakaoProviderType  -> KakaoUserInfoURL
      [] typ = NaverProviderType  -> NaverUserInfoURL

\* C25: GetUserInfo(accessToken) of every provider sends one GET to the
\* profile endpoint of its own provider; the only header it sets is
\* Authorization, whose value is exactly "Bearer " followed by the
\* caller's access token; the request has no query and no body, so neither
\* the client ID nor the client secret is sent.
C25_UserInfoRequest ==
    (InvokedMethod("GetUserInfo") /\ sent # << >>)
    => LET req == sent[1]
       IN  /\ Len(sent) = 1
           /\ GetProvider(Adapter) = call.provider
           /\ req.method = "GET"
           /\ req.url = UserInfoURL(call.provider)
           /\ URLBase(req.url) = req.url
           /\ DOMAIN req.header = {"Authorization"}
           /\ req.header["Authorization"] = <<"Bearer", " ">> \o call.arg
           /\ req.body = << >>

\* A naver provider holding a client ID and a secret sent the profile
\* request for the access token "token".
C25_Witness ==
    /\ InvokedMethod("GetUserInfo")
    /\ GetProvider(Adapter) = NaverProviderType
    /\ Adapter.clientID # << >>
    /\ Adapter.clientSecret # << >>
    /\ call.arg = <<"token">>
    /\ Len(sent) = 1
    /\ sent[1].url = NaverUserInfoURL
    /\ sent[1].header["Authorization"] = <<"Bearer", " ", "token">>

\* The provider methods each base kind may come from.
KindMethods ==
    [k \in AdapterKinds |->
        CASE k = ErrRedirectURLNotSet     -> {"GetAuthURL"}
          [] k = ErrEmptyAuthCode         -> {"GetToken"}
          [] k = ErrEmptyRefreshToken     -> {"RefreshToken"}
          [] k = ErrTokenRequestFailed    -> {"GetToken", "RefreshToken"}
          [] k = ErrUserInfoRequestFailed -> {"GetUserInfo"}]

\* C26: each error kind arises only from its own operation.  A provider
\* method returns ErrRedirectURLNotSet only from GetAuthURL,
\* ErrEmptyAuthCode only from GetToken, ErrEmptyRefreshToken only from
\* RefreshToken, ErrTokenRequestFailed only from GetToken and RefreshToken,
\* ErrUserInfoRequestFailed only from GetUserInfo, and never
\* ErrProviderNotSet, which the client returns only when its lookup finds
\* no provider; GetToken and RefreshToken of a provider without a redirect
\* URL do not fail with ErrRedirectURLNotSet.
C26_ErrorKindsByOperation ==
    /\ (inner # NoCall /\ ~inner.panic /\ inner.err # NoError)
       => /\ ~ErrorsIs(inner.err, ErrProviderNotSet)
          /\ \A k \in AdapterKinds :
                ErrorsIs(inner.err, k) => inner.method \in KindMethods[k]
    /\ (call.method \in DOMAIN Forwards /\ ~ret.panic /\ ret.err # NoError)
       => /\ ErrorsIs(ret.err, ErrProviderNotSet)
               <=> (~Registered /\ inner = NoCall)
          /\ \A k \in AdapterKinds :
                ErrorsIs(ret.err, k)
                    => /\ inner # NoCall
                       /\ Forwards[call.method] \in KindMethods[k]
    /\ (TokenCall /\ Adapter.redirectURL = << >> /\ ~inner.panic)
       => ~ErrorsIs(inner.err, ErrRedirectURLNotSet)

\* A naver provider without a redirect URL exchanged a code: the request
\* went out and failed at the transport with ErrTokenRequestFailed.
C26_Witness ==
    /\ InvokedMethod("GetToken")
    /\ GetProvider(Adapter) = NaverProviderType
    /\ Adapter.redirectURL = << >>
    /\ Adapter.client
    /\ sent # << >>
    /\ inner.err # NoError
    /\ KindsOf(ret.err) = {ErrTokenRequestFailed}

\* The provider method each client method calls.
Calls ==
    [m \in AllMethods |->
        IF m = "RequestAuthURL" THEN "GetAuthURL" ELSE Forwards[m]]

\* The endpoints the provider with identifier typ sends requests to.
Endpoints(typ) == {TokenURL(typ), UserInfoURL(typ)}

\* C27: a client method called with identifier P invokes the provider
\* registered under P, the one NewClient kept for P, once, with the method
\* that matches, and no other provider: every request of the call goes to
\* an endpoint of P, and there is at most one.  Called with an identifier
\* that is not registered it invokes no provider and nothing is sent.
C27_OnlyRegisteredAdapterInvoked ==
    call # Idle
    => /\ Registered =>
            /\ inner # NoCall
            /\ inner.adapter = providers[call.provider]
            /\ inner.adapter \in PositionsOf(call.provider)
            /\ inner.method = Calls[call.method]
            /\ inner.arg = call.arg
            /\ Len(sent) <= 1
            /\ \A i \in 1..Len(sent) : sent[i].url \in Endpoints(call.provider)
       /\ ~Registered =>
            /\ inner = NoCall
            /\ sent = << >>
            /\ resp = NoResponse

\* A user-info fetch for an identifier that is not registered, on a client
\* holding two other providers, invoked neither of them and sent nothing.
C27_Witness ==
    /\ Returned("RequestUserInfo")
    /\ ~Registered
    /\ Cardinality(DOMAIN providers) = 2
    /\ call.provider \in ProviderTypes
    /\ call.arg # << >>
    /\ inner = NoCall
    /\ sent = << >>

\* RequestToken or RequestRefreshToken has returned.
TokenRequest ==
    call.method \in {"RequestToken", "RequestRefreshToken"} /\ ~ret.panic

\* C28 as stated: whenever RequestToken or RequestRefreshToken returns an
\* error the TokenInfo it returns is nil, although the provider returned a
\* zero-valued TokenInfo next to its error; whenever they return no error
\* the TokenInfo is the provider's token; the caller never receives both a
\* token and an error.
C28_NilTokenZeroFromProvider ==
    TokenRequest
    => /\ ret.err # NoError =>
            /\ ret.val = Nil
            /\ inner # NoCall => inner.val = ZeroToken(GetProvider(Adapter))
       /\ ret.err = NoError =>
            /\ ret.val # Nil
            /\ ret.val = inner.val
       /\ ~(ret.val # Nil /\ ret.err # NoError)

\* C28, amended: whenever RequestToken or RequestRefreshToken returns an
\* error the TokenInfo it returns is nil, although the provider returned a
\* TokenInfo that is not nil next to its error: the zero-valued one, or,
\* when the payload failed to decode, the one holding the fields that did
\* decode; whenever they return no error the TokenInfo is the provider's
\* token; the caller never receives both a token and an error.
C28_NilTokenWithError ==
    TokenRequest
    => /\ ret.err # NoError =>
            /\ ret.val = Nil
            /\ inner # NoCall =>
                 /\ inner.err = ret.err
                 /\ inner.val # Nil
                 /\ inner.val.pkg = GetProvider(Adapter)
                 /\ IF GotBody /\ resp.status = 200
                    THEN inner.val
                           = CASE GetProvider(Adapter) = GoogleProviderType ->
                                    GoogleTokenUnmarshal(resp.body,
                                                         GoogleZeroToken).v
                               [] GetProvider(Adapter) = KakaoProviderType ->
                                    KakaoTokenUnmarshal(resp.body,
                                                        KakaoZeroToken).v
                               [] GetProvider(Adapter) = NaverProviderType ->
                                    NaverTokenUnmarshal(resp.body,
                                                        NaverZeroToken).v
                    ELSE inner.val = ZeroToken(GetProvider(Adapter))
       /\ ret.err = NoError =>
            /\ ret.val # Nil
            /\ ret.val = inner.val
       /\ ~(ret.val # Nil /\ ret.err # NoError)

\* A kakao exchange was answered 200 with a payload whose expires_in is a
\* string: the provider returned the token holding the access token it had
\* decoded, next to the decode error, and the client returned nil with that
\* error.
C28_Witness ==
    /\ Returned("RequestToken")
    /\ Registered
    /\ call.provider = KakaoProviderType
    /\ GotBody
    /\ resp.status = 200
    /\ inner.err # NoError
    /\ inner.val # KakaoZeroToken
    /\ inner.val.AccessToken = <<"AT">>
    /\ ret.err = inner.err
    /\ ret.val = Nil

\* What each accessor of a UserInfo value gives when it is called.
Readings(u) ==
    {GetID(u), GetEmail(u), GetName(u)}
    \cup (IF u.pkg = "google" THEN {}
          ELSE {GetGender(u), GetProfileImage(u)})

\* C29: every GetUserInfo and RequestUserInfo call that returns no error
\* returns a UserInfo that is present and whose accessors can all be
\* called without a fault, for every provider and every body that decodes,
\* the JSON body null included.
C29_UserInfoReadableOnSuccess ==
    (InvokedMethod("GetUserInfo") /\ ~inner.panic /\ inner.err = NoError)
    => /\ inner.val # Nil
       /\ ~inner.val.nilptr
       /\ \A r \in Readings(inner.val) : ~r.panic
       /\ ret.err = NoError
       /\ ret.val = inner.val

\* C30: GetUserInfo rejects no input.  Called with an empty access token
\* on a provider that has an HTTP client it still sends exactly one GET,
\* whose Authorization header is "Bearer ", and what it returns is decided
\* by the answer of the transport and the decoding of the body alone, as
\* for any other token; GetToken and RefreshToken called with an empty
\* code or refresh token fail before anything is sent.
C30_UserInfoAcceptsEmptyToken ==
    /\ (InvokedMethod("GetUserInfo") /\ ~inner.panic)
       => /\ Len(sent) = 1
          /\ sent[1].method = "GET"
          /\ inner.arg = << >>
                => sent[1].header["Authorization"] = <<"Bearer", " ">>
          /\ resp # NoResponse
          /\ resp.type = "err" =>
                ErrorText(inner.err)
                  = WrappedText(GetProvider(Adapter), ErrUserInfoRequestFailed,
                                resp.msg)
          /\ (resp.type = "resp" /\ resp.readErr) =>
                ErrorText(inner.err)
                  = WrappedText(GetProvider(Adapter), ErrUserInfoRequestFailed,
                                ReadErrorText)
          /\ GotBody =>
                LET d == UserUnmarshal(GetProvider(Adapter), resp.body)
                IN  IF d.err = ""
                    THEN inner.err = NoError /\ inner.val = d.v
                    ELSE ErrorText(inner.err)
                           = WrappedText(GetProvider(Adapter),
                                         ErrUserInfoRequestFailed, d.err)
    /\ (TokenCall /\ inner.arg = << >>)
       => /\ ~inner.panic
          /\ inner.err # NoError
          /\ sent = << >>

\* A google user-info fetch with an empty access token sent its request
\* and returned the user the body decodes to.
C30_Witness ==
    /\ InvokedMethod("GetUserInfo")
    /\ GetProvider(Adapter) = GoogleProviderType
    /\ inner.arg = << >>
    /\ Len(sent) = 1
    /\ sent[1].header["Authorization"] = <<"Bearer", " ">>
    /\ GotBody
    /\ inner.err = NoError
    /\ GetID(inner.val) = Got(<<"1", "2", "3">>)

====
